---- MODULE Spec2Model ----
(***************************************************************************)
(* The knowledge graph of the MOSDAC help bot                              *)
(* (src/knowledge_graph/graph_manager.py): the local NetworkX multigraph,  *)
(* its ingestion (add_content), its readers (search_content,               *)
(* get_graph_stats, export_graph, get_related_content) and clear_graph,   *)
(* with the HTTP handlers of src/api/main.py on top: the export endpoint,  *)
(* and the event loop on which add_content runs statement by statement     *)
(* between the other handlers.  Beside it, the query classifier            *)
(* (src/nlp/query_processor.py): normalization, the regex tables and their *)
(* matching, the spaCy tagger as an input, the intent scores and the       *)
(* keywords; the orchestrator (src/core/ai_help_bot.py): the handler of    *)
(* each intent, its search and the conversation history; and the crawl of  *)
(* the portal (src/scrapers/mosdac_scraper.py, discover_content).          *)
(*                                                                         *)
(* Conventions.  A Python str is a sequence of one-character strings, so   *)
(* that lower() and the `in` substring test are computed.  A node's       *)
(* attribute dict is a record; `'k' in d` is "k" \in DOMAIN d.  A key of    *)
(* a scraped record is <<>> when missing and <<v>> when held.  None (and   *)
(* the empty list) as an embedding is the empty tuple.  uuid4() yields a   *)
(* key no node of the graph has: <<"uuid", n>> with n the least number not *)
(* in use.  A Neo4j node identity k (an int) is <<"neo", k>>, and str(k)   *)
(* is <<"str", k>>.  A float is kept exactly, as num / sqrt(den2).  The    *)
(* attributes url, metadata and source_url are carried through unread and  *)
(* are left out.                                                           *)
(***************************************************************************)
EXTENDS Integers, Sequences, FiniteSets, TLC

VARIABLES
    graph,            \* self.graph is truthy: the Neo4j connection was made
    embedding_model,  \* self.embedding_model is not None
    nx_nodes,         \* self.nx_graph nodes, in insertion order (dict order)
    nx_edges,         \* self.nx_graph edges, in insertion order
    neo_count,        \* nodes held by Neo4j; the next node's identity
    last,             \* the last call: [op, arg, ret, raised]
    running,          \* the add_content call under way: <<>>, or <<its frame>>
    nlp,              \* QueryProcessor.nlp is not None: the spaCy model loaded
    conversation_history,  \* AIHelpBot.conversation_history, oldest first
    crawl             \* the discover_content call: its locals and where it stands

vars == <<graph, embedding_model, nx_nodes, nx_edges, neo_count, last, running, nlp,
          conversation_history, crawl>>

---------------------------------------------------------------------------
(* Bounds of the model *)

MaxNodes == 5   \* an add_content that would pass this node count is not taken
MaxFaqs  == 2   \* longest 'faqs' list of a record
MaxLinks == 2   \* longest 'download_links' list of a record
MaxLimit == 2   \* largest `limit` of a search
MaxAdds  == 2   \* add_content calls between two clear_graph calls
MaxNeo   == 2   \* nodes Neo4j comes to hold
MaxHistory == 3 \* records conversation_history comes to hold
MaxDepth == 2   \* largest max_depth of a crawl

---------------------------------------------------------------------------
(* Strings *)

Min(a, b) == IF a < b THEN a ELSE b
Max(a, b) == IF a < b THEN b ELSE a

\* The str with the characters of text: "ab" as <<"a", "b">>
RECURSIVE Chars(_)
Chars(text) ==
    IF text = "" THEN <<>>
    ELSE <<SubSeq(text, 1, 1)>> \o Chars(SubSeq(text, 2, Len(text)))

Alphabet == Chars("abcdefghijklmnopqrstuvwxyz")
Capitals == Chars("ABCDEFGHIJKLMNOPQRSTUVWXYZ")

\* str.lower() of one character
LowerChar(c) ==
    CASE c = "A" -> "a"
      [] c = "B" -> "b"
      [] c = "C" -> "c"
      [] c = "D" -> "d"
      [] c = "E" -> "e"
      [] c = "F" -> "f"
      [] c = "G" -> "g"
      [] c = "H" -> "h"
      [] c = "I" -> "i"
      [] c = "J" -> "j"
      [] c = "K" -> "k"
      [] c = "L" -> "l"
      [] c = "M" -> "m"
      [] c = "N" -> "n"
      [] c = "O" -> "o"
      [] c = "P" -> "p"
      [] c = "Q" -> "q"
      [] c = "R" -> "r"
      [] c = "S" -> "s"
      [] c = "T" -> "t"
      [] c = "U" -> "u"
      [] c = "V" -> "v"
      [] c = "W" -> "w"
      [] c = "X" -> "x"
      [] c = "Y" -> "y"
      [] c = "Z" -> "z"
      [] OTHER   -> c

Lower(s) == [i \in 1..Len(s) |-> LowerChar(s[i])]

\* needle in hay
Contains(hay, needle) ==
    \E i \in 0..(Len(hay) - Len(needle)) :
        SubSeq(hay, i + 1, i + Len(needle)) = needle

\* seq[:limit]
Slice(s, limit) ==
    IF limit >= 0 THEN SubSeq(s, 1, Min(limit, Len(s)))
    ELSE SubSeq(s, 1, Max(Len(s) + limit, 0))

RECURSIVE Sum(_, _)
Sum(f, S) == IF S = {} THEN 0
             ELSE LET x == CHOOSE y \in S : TRUE IN f[x] + Sum(f, S \ {x})

---------------------------------------------------------------------------
(* Input records *)

sSat     == <<"S", "a", "t">>
sSatData == <<"s", "a", "t", " ", "D", "a", "t", "a">>
sData    == <<"d", "a", "t", "a">>
sA       == <<"a">>
sB       == <<"b">>
sC       == <<"c">>
sQ       == <<"q">>
sEmpty   == <<>>

\* metadata.title and text_content of a scraped page
aDoc == [title |-> sSat, text_content |-> sData]
bDoc == [title |-> sSatData, text_content |-> sSat]

\* The entries of a page's 'faqs': odd entries ask "a", even entries have
\* no question text
Faq(i) == IF i % 2 = 1 THEN [question |-> sA, answer |-> sC]
          ELSE [question |-> sEmpty, answer |-> sB]

\* 'faqs' lists: the first n entries of the page, n up to MaxFaqs
FaqLists == { [i \in 1..n |-> Faq(i)] : n \in 0..MaxFaqs }

\* one entry of 'download_links'
aLink == [url |-> "http://m/f.h5", text |-> sData, file_type |-> "h5"]

LinkLists == { [i \in 1..n |-> aLink] : n \in 0..MaxLinks }

\* A dict key that may be missing: <<>> when the dict does not hold the key,
\* <<v>> when it holds it with value v.  d.get(k, default):
Get(opt, default) == IF Len(opt) = 0 THEN default ELSE opt[1]

Missing == <<>>
Some(S) == { <<v>> : v \in S }
Opt(S)  == {Missing} \cup Some(S)

\* A scraped record (the content_data dict)
Record(ct, doc, faqs, di, links, ai) ==
    [ content_type   |-> ct,
      title          |-> doc.title,
      text_content   |-> doc.text_content,
      faqs           |-> faqs,
      data_info      |-> di,
      download_links |-> links,
      api_info       |-> ai ]

DataInfos == SUBSET {"specifications"}
ApiInfos  == SUBSET {"documentation", "code_examples"}

\* The nested fields of the other content types, as a 'faq' record, a 'general'
\* record and a record without content_type may carry them: none of them, or
\* all of them filled.
fullFaqs  == << <<[question |-> sA, answer |-> sC]>> >>
fullData  == << {"specifications"} >>
fullLinks == << <<aLink>> >>
fullApi   == << {"documentation", "code_examples"} >>

FaqPayloads(D) ==
    { Record(<<"faq">>, doc, faqs, o[1], o[2], o[3]) :
        doc \in D, faqs \in Opt(FaqLists),
        o \in { <<Missing, Missing, Missing>>, <<fullData, fullLinks, fullApi>> } }

DataPayloads(D) ==
    { Record(<<"data">>, doc, Missing, di, links, Missing) :
        doc \in D, di \in Opt(DataInfos), links \in Opt(LinkLists) }

ApiPayloads(D) ==
    { Record(<<"api">>, doc, Missing, Missing, Missing, ai) :
        doc \in D, ai \in Opt(ApiInfos) }

\* 'general', and a record without content_type
OtherPayloads(D) ==
    { Record(ct, doc, o[1], o[2], o[3], o[4]) :
        ct \in Opt({"general"}), doc \in D,
        o \in { <<Missing, Missing, Missing, Missing>>,
                <<fullFaqs, fullData, fullLinks, fullApi>> } }

\* The records of the ingestion runs
Payloads ==
    FaqPayloads({aDoc}) \cup DataPayloads({aDoc}) \cup ApiPayloads({aDoc})
        \cup OtherPayloads({aDoc})

\* The records of the runs with readers: one filled record per content type
ReadPayloads ==
    { Record(<<ct>>, aDoc, fullFaqs, fullData, fullLinks, fullApi) :
        ct \in {"faq", "data", "api", "general"} }

\* The records of the search runs: pages with and without FAQ entries
SearchPayloads ==
    { Record(<<"faq">>, aDoc, <<faqs>>, Missing, Missing, Missing) : faqs \in FaqLists }
    \cup { Record(<<"general">>, doc, Missing, Missing, Missing, Missing) :
             doc \in {aDoc, bDoc} }

---------------------------------------------------------------------------
(* The embedding provider *)

\* SentenceTransformer.encode(text): a fixed vector per text
encode(text) ==
    CASE text = sA   -> <<1, 0, 0, 0>>
      [] text = sB   -> <<1, 1, 0, 0>>
      [] text = sC   -> <<0, 1, 0, 0>>
      [] text = sSat -> <<2, 1, 0, 0>>
      [] text = sQ   -> <<3, 9, 3, 1>>
      [] OTHER       -> <<0, 0, 0, 0>>

None == <<>>

\* _get_embedding; raises: encode raises during this call
_get_embedding(text, raises) ==
    IF ~embedding_model \/ text = sEmpty THEN None
    ELSE IF raises THEN None
    ELSE encode(text)

---------------------------------------------------------------------------
(* Ingestion *)

\* A key made once and used for every node
UuidOnce(n) == <<"uuid", 1>>

\* str(uuid.uuid4()): the n-th key
Uuid(n) == <<"uuid", n>>

\* keys uuid4() has given to nodes of the graph
UuidsIn(nodes) == Cardinality({ i \in 1..Len(nodes) : nodes[i].id[1] = "uuid" })

\* self.nx_graph.add_node(id, **attrs): a new node goes last; a node that
\* exists keeps its place and takes the attributes given
add_node(G, n) ==
    IF \E i \in 1..Len(G.nodes) : G.nodes[i].id = n.id
    THEN LET i == CHOOSE j \in 1..Len(G.nodes) : G.nodes[j].id = n.id
         IN [G EXCEPT !.nodes[i] = n @@ G.nodes[i]]
    ELSE [G EXCEPT !.nodes = Append(G.nodes, n)]

HasNode(G, id) == \E i \in 1..Len(G.nodes) : G.nodes[i].id = id

\* self.nx_graph.add_edge(u, v, type=t): a MultiDiGraph takes every edge as a
\* new one, and adds an endpoint it does not hold as a node without attributes
add_edge(G, e) ==
    LET G1 == IF HasNode(G, e.source) THEN G ELSE add_node(G, [id |-> e.source])
        G2 == IF HasNode(G1, e.target) THEN G1 ELSE add_node(G1, [id |-> e.target])
    IN [G2 EXCEPT !.edges = Append(G2.edges, e)]

Edge(u, v, t) == [source |-> u, target |-> v, type |-> t]

\* The add_node and add_edge calls of a piece of code, in order
NodeOp(n) == [op |-> "add_node", node |-> n]
EdgeOp(e) == [op |-> "add_edge", edge |-> e]

RECURSIVE Apply(_, _)
Apply(G, ops) ==
    IF ops = <<>> THEN G
    ELSE LET o == Head(ops)
         IN Apply(IF o.op = "add_node" THEN add_node(G, o.node) ELSE add_edge(G, o.edge),
                  Tail(ops))

\* FaqTurn without its last call: the answer is never tied to its question
FaqTurnNoAnswerEdge(content_node_id, faq, base, raises) ==
    LET question_id == Uuid(base + 1)
        answer_id   == Uuid(base + 2)
    IN << NodeOp([ id |-> question_id, type |-> "question",
                   text |-> faq.question,
                   embedding |-> _get_embedding(faq.question, raises) ]),
          NodeOp([ id |-> answer_id, type |-> "answer",
                   text |-> faq.answer,
                   embedding |-> _get_embedding(faq.answer, raises) ]),
          EdgeOp(Edge(content_node_id, question_id, "contains")) >>

\* FaqTurn with the 'has_answer' edge drawn from the content node
FaqTurnAnswerFromContent(content_node_id, faq, base, raises) ==
    LET question_id == Uuid(base + 1)
        answer_id   == Uuid(base + 2)
    IN << NodeOp([ id |-> question_id, type |-> "question",
                   text |-> faq.question,
                   embedding |-> _get_embedding(faq.question, raises) ]),
          NodeOp([ id |-> answer_id, type |-> "answer",
                   text |-> faq.answer,
                   embedding |-> _get_embedding(faq.answer, raises) ]),
          EdgeOp(Edge(content_node_id, question_id, "contains")),
          EdgeOp(Edge(content_node_id, answer_id, "has_answer")) >>

\* The calls of one turn of the loop of _process_faq_content.
\* base: the uuids in use before the turn.
FaqTurn(content_node_id, faq, base, raises) ==
    LET question_id == Uuid(base + 1)
        answer_id   == Uuid(base + 2)
    IN << NodeOp([ id |-> question_id, type |-> "question",
                   text |-> faq.question,
                   embedding |-> _get_embedding(faq.question, raises) ]),
          NodeOp([ id |-> answer_id, type |-> "answer",
                   text |-> faq.answer,
                   embedding |-> _get_embedding(faq.answer, raises) ]),
          EdgeOp(Edge(content_node_id, question_id, "contains")),
          EdgeOp(Edge(question_id, answer_id, "has_answer")) >>

RECURSIVE FaqTurns(_, _, _, _)
FaqTurns(content_node_id, faqs, base, raises) ==
    IF faqs = <<>> THEN <<>>
    ELSE FaqTurn(content_node_id, Head(faqs), base, raises)
         \o FaqTurns(content_node_id, Tail(faqs), base + 2, raises)

\* _process_faq_content
_process_faq_content(content_node_id, content_data, base, raises) ==
    FaqTurns(content_node_id, Get(content_data.faqs, <<>>), base, raises)

\* The calls of one turn of the download_links loop of _process_data_content
LinkTurn(content_node_id, link, base) ==
    LET link_id == Uuid(base + 1)
    IN << NodeOp([ id |-> link_id, type |-> "download_link",
                   url |-> link.url, text |-> link.text,
                   file_type |-> link.file_type ]),
          EdgeOp(Edge(content_node_id, link_id, "has_download")) >>

RECURSIVE LinkTurns(_, _, _)
LinkTurns(content_node_id, links, base) ==
    IF links = <<>> THEN <<>>
    ELSE LinkTurn(content_node_id, Head(links), base)
         \o LinkTurns(content_node_id, Tail(links), base + 1)

\* _process_data_content looking for 'specifications' in content_data
\* instead of data_info: the specifications are never found
DataWithoutSpecs(content_node_id, content_data, base) ==
    LinkTurns(content_node_id, Get(content_data.download_links, <<>>), base)

\* _process_data_content
_process_data_content(content_node_id, content_data, base) ==
    LET data_info == Get(content_data.data_info, {})
        hasSpecs  == "specifications" \in data_info
        specs_id  == Uuid(base + 1)
    IN (IF hasSpecs
        THEN << NodeOp([ id |-> specs_id, type |-> "specifications",
                         data |-> "specifications" ]),
                EdgeOp(Edge(content_node_id, specs_id, "has_specifications")) >>
        ELSE <<>>)
       \o LinkTurns(content_node_id, Get(content_data.download_links, <<>>),
                    IF hasSpecs THEN base + 1 ELSE base)

\* _process_api_content
_process_api_content(content_node_id, content_data, base) ==
    LET api_info == Get(content_data.api_info, {})
        hasDoc   == "documentation" \in api_info
        doc_id   == Uuid(base + 1)
        code_id  == Uuid(IF hasDoc THEN base + 2 ELSE base + 1)
    IN (IF hasDoc
        THEN << NodeOp([ id |-> doc_id, type |-> "api_documentation",
                         text |-> "documentation" ]),
                EdgeOp(Edge(content_node_id, doc_id, "has_documentation")) >>
        ELSE <<>>)
       \o
       (IF "code_examples" \in api_info
        THEN << NodeOp([ id |-> code_id, type |-> "code_example",
                         code |-> "code_examples" ]),
                EdgeOp(Edge(content_node_id, code_id, "has_example")) >>
        ELSE <<>>)

\* A dispatch on the fields a record holds instead of on its content_type
DerivedByField(node_id, content_data, base, raises) ==
    IF content_data.faqs # Missing
    THEN _process_faq_content(node_id, content_data, base, raises)
    ELSE IF content_data.data_info # Missing \/ content_data.download_links # Missing
    THEN _process_data_content(node_id, content_data, base)
    ELSE IF content_data.api_info # Missing
    THEN _process_api_content(node_id, content_data, base)
    ELSE <<>>

\* The dispatch of _add_to_local_graph on content_data.get('content_type')
Derived(node_id, content_data, base, raises) ==
    LET ct == Get(content_data.content_type, "None") IN
    IF ct = "faq" THEN _process_faq_content(node_id, content_data, base, raises)
    ELSE IF ct = "data" THEN _process_data_content(node_id, content_data, base)
    ELSE IF ct = "api" THEN _process_api_content(node_id, content_data, base)
    ELSE <<>>

\* `not node_id`: None, and the identity 0
Falsy(node_id) == node_id = None \/ node_id = <<"neo", 0>>

\* The add_node and add_edge calls _add_to_local_graph makes, in order, and
\* the key of the content node
Statements(content_data, node_id, raises) ==
    LET used == UuidsIn(nx_nodes)
        key  == IF Falsy(node_id) THEN Uuid(used + 1) ELSE node_id
        base == IF Falsy(node_id) THEN used + 1 ELSE used
        content ==
            [ id |-> key, type |-> "content",
              content_type |-> Get(content_data.content_type, "unknown"),
              title |-> content_data.title,
              text_content |-> content_data.text_content ]
    IN [ key |-> key,
         ops |-> <<NodeOp(content)>> \o Derived(key, content_data, base, raises) ]

\* _add_to_local_graph(content_data, node_id): the graph after it and the key
\* of the content node.  node_id is None, or the identity add_content passes.
_add_to_local_graph(content_data, node_id, raises) ==
    LET st == Statements(content_data, node_id, raises)
        G  == Apply([nodes |-> nx_nodes, edges |-> nx_edges], st.ops)
    IN [nodes |-> G.nodes, edges |-> G.edges, node_id |-> st.key]

---------------------------------------------------------------------------
(* Scores *)

\* A float score num / sqrt(den2), kept exactly (den2 > 0)
Score(num, den2) == [num |-> num, den2 |-> den2]

Sq(x) == x * x

\* a < b, for scores
ScoreLess(a, b) ==
    IF a.num < 0 /\ b.num >= 0 THEN TRUE
    ELSE IF a.num >= 0 /\ b.num < 0 THEN FALSE
    ELSE IF a.num >= 0 THEN Sq(a.num) * b.den2 < Sq(b.num) * a.den2
    ELSE Sq(a.num) * b.den2 > Sq(b.num) * a.den2

ScoreEq(a, b) == ~ScoreLess(a, b) /\ ~ScoreLess(b, a)

Dot(v, w) == Sum([i \in 1..Min(Len(v), Len(w)) |-> v[i] * w[i]],
                 1..Min(Len(v), Len(w)))

\* _cosine_similarity
_cosine_similarity(vec1, vec2) ==
    LET dot_product == Dot(vec1, vec2)
        norm1sq     == Dot(vec1, vec1)
        norm2sq     == Dot(vec2, vec2)
    IN IF norm1sq = 0 \/ norm2sq = 0 THEN Score(0, 1)
       ELSE Score(dot_product, norm1sq * norm2sq)

\* similarity > 0.3
Threshold == Score(3, 100)

\* An insertion that puts an entry ahead of the entries equal to it, as a
\* sort followed by reverse() does
RECURSIVE SortedInsertBeforeEqual(_, _)
SortedInsertBeforeEqual(sorted, r) ==
    IF sorted = <<>> THEN <<r>>
    ELSE IF ~ScoreLess(r.similarity, sorted[Len(sorted)].similarity)
         THEN Append(SortedInsertBeforeEqual(SubSeq(sorted, 1, Len(sorted) - 1), r),
                     sorted[Len(sorted)])
         ELSE Append(sorted, r)

\* list.sort(key=similarity, reverse=True): a stable sort, equal keys keep
\* their order.  Insertion from the left, each entry after those not below it.
RECURSIVE SortedInsert(_, _)
SortedInsert(sorted, r) ==
    IF sorted = <<>> THEN <<r>>
    ELSE IF ScoreLess(sorted[Len(sorted)].similarity, r.similarity)
         THEN Append(SortedInsert(SubSeq(sorted, 1, Len(sorted) - 1), r),
                     sorted[Len(sorted)])
         ELSE Append(sorted, r)

\* No sort at all
Unsorted(results) == results

RECURSIVE SortDesc(_)
SortDesc(results) ==
    IF results = <<>> THEN <<>>
    ELSE SortedInsert(SortDesc(SubSeq(results, 1, Len(results) - 1)),
                      results[Len(results)])

Result(node, score) == [node_id |-> node.id, similarity |-> score, data |-> node]

---------------------------------------------------------------------------
(* Search *)

\* A score that gives the title and the text one point each
TextScoreEqualWeights(query_lower, node_data) ==
    (IF "title" \in DOMAIN node_data /\ Contains(Lower(node_data.title), query_lower)
     THEN 1 ELSE 0)
    + (IF "text_content" \in DOMAIN node_data
          /\ Contains(Lower(node_data.text_content), query_lower)
       THEN 1 ELSE 0)

\* A score that looks the query up in a node's 'text' as well
TextScoreAnyText(query_lower, node_data) ==
    (IF "title" \in DOMAIN node_data /\ Contains(Lower(node_data.title), query_lower)
     THEN 2 ELSE 0)
    + (IF \/ "text_content" \in DOMAIN node_data
             /\ Contains(Lower(node_data.text_content), query_lower)
          \/ "text" \in DOMAIN node_data /\ Contains(Lower(node_data.text), query_lower)
       THEN 1 ELSE 0)

\* The score _text_search gives a node, before the division by 3
TextScore(query_lower, node_data) ==
    (IF "title" \in DOMAIN node_data /\ Contains(Lower(node_data.title), query_lower)
     THEN 2 ELSE 0)
    + (IF "text_content" \in DOMAIN node_data
          /\ Contains(Lower(node_data.text_content), query_lower)
       THEN 1 ELSE 0)

\* _text_search
_text_search(query, limit) ==
    LET query_lower == Lower(query)
        hit(n)      == TextScore(query_lower, n) > 0
        hits        == SelectSeq(nx_nodes, hit)
        results     == [ i \in 1..Len(hits) |->
                           Result(hits[i], Score(TextScore(query_lower, hits[i]), 9)) ]
    IN Slice(SortDesc(results), limit)

\* The embedding branch with `similarity >= 0.3`
SemanticSearchAtLeast(query, limit) ==
    LET query_embedding == encode(query)
        sim(n)  == _cosine_similarity(query_embedding, n.embedding)
        hit(n)  == /\ "embedding" \in DOMAIN n
                   /\ n.embedding # None
                   /\ ~ScoreLess(sim(n), Threshold)
        hits    == SelectSeq(nx_nodes, hit)
        results == [ i \in 1..Len(hits) |-> Result(hits[i], sim(hits[i])) ]
    IN Slice(SortDesc(results), limit)

\* The embedding branch of search_content
SemanticSearch(query, limit) ==
    LET query_embedding == encode(query)
        sim(n)  == _cosine_similarity(query_embedding, n.embedding)
        hit(n)  == /\ "embedding" \in DOMAIN n
                   /\ n.embedding # None
                   /\ ScoreLess(Threshold, sim(n))
        hits    == SelectSeq(nx_nodes, hit)
        results == [ i \in 1..Len(hits) |-> Result(hits[i], sim(hits[i])) ]
    IN Slice(SortDesc(results), limit)

\* search_content returning nothing when encode(query) raises
SearchNoFallback(query, limit, raises) ==
    IF ~embedding_model THEN _text_search(query, limit)
    ELSE IF raises THEN <<>>
    ELSE SemanticSearch(query, limit)

\* search_content; raises: encode(query) raises
SearchResults(query, limit, raises) ==
    IF ~embedding_model THEN _text_search(query, limit)
    ELSE IF raises THEN _text_search(query, limit)
    ELSE SemanticSearch(query, limit)

SearchPath(raises) ==
    IF ~embedding_model THEN "lexical"
    ELSE IF raises THEN "fallback"
    ELSE "embedding"

---------------------------------------------------------------------------
(* Statistics and export *)

Histogram(seq) ==
    [ t \in { seq[i].type : i \in 1..Len(seq) } |->
        Cardinality({ i \in 1..Len(seq) : seq[i].type = t }) ]

EmptyDict == <<>>

\* get_graph_stats: `not self.nx_graph` holds of a graph without nodes
GraphStats ==
    IF Len(nx_nodes) = 0 THEN EmptyDict
    ELSE [ total_nodes |-> Len(nx_nodes),
           total_edges |-> Len(nx_edges),
           node_types  |-> Histogram(nx_nodes),
           edge_types  |-> Histogram(nx_edges) ]

\* nx_graph.edges(data=True): by source node in node order, each node's
\* edges in insertion order
RECURSIVE EdgesView(_)
EdgesView(k) ==
    IF k = 0 THEN <<>>
    ELSE LET from(e) == e.source = nx_nodes[k].id
         IN EdgesView(k - 1) \o SelectSeq(nx_edges, from)

\* A graph_data that holds the edges of the first node only
GraphDataFirstSourceOnly ==
    [ nodes |-> nx_nodes, edges |-> EdgesView(Min(1, Len(nx_nodes))) ]

\* The graph_data that export_graph dumps as JSON
GraphData == [ nodes |-> nx_nodes, edges |-> EdgesView(Len(nx_nodes)) ]

Formats == {"json", "gml", "graphml", "xml"}
Supported == {"json", "gml", "graphml"}

\* export_graph: what the try block does.  fails: open or the writer raises.
ExportRaises(format, fails) == format \notin Supported \/ fails

ExportWritten(format, fails) ==
    IF ExportRaises(format, fails) THEN <<>>
    ELSE IF format = "json" THEN << [format |-> format, graph_data |-> GraphData] >>
    ELSE << [format |-> format, graph_data |-> [nodes |-> nx_nodes, edges |-> nx_edges]] >>

\* The except clause of export_graph logs and returns
ExportOutcome(format, fails) ==
    [ ret |-> "None", raised |-> FALSE,
      log |-> IF ExportRaises(format, fails) THEN "error" ELSE "info" ]

\* GET /graph/export: the HTTPException(400) is raised inside the try whose
\* except turns every exception into HTTPException(500)
ApiExportStatus(format) ==
    IF format \notin Supported THEN 500 ELSE 200

---------------------------------------------------------------------------
(* Related content *)

\* the elements of seq, each once, in the order of their first occurrence
RECURSIVE Distinct(_)
Distinct(seq) ==
    IF seq = <<>> THEN <<>>
    ELSE LET front == Distinct(SubSeq(seq, 1, Len(seq) - 1))
             x     == seq[Len(seq)]
         IN IF \E i \in 1..Len(front) : front[i] = x THEN front ELSE Append(front, x)

RECURSIVE Flatten(_)
Flatten(seqs) ==
    IF seqs = <<>> THEN <<>>
    ELSE Flatten(SubSeq(seqs, 1, Len(seqs) - 1)) \o seqs[Len(seqs)]

\* nx_graph.neighbors(node_id): the successors, in the order of their first edge
neighbors(node_id) ==
    LET from(e) == e.source = node_id
        out     == SelectSeq(nx_edges, from)
    IN Distinct([i \in 1..Len(out) |-> out[i].target])

\* nx_graph.get_edge_data(u, v): the edges from u to v, in key order
get_edge_data(u, v) ==
    LET joins(e) == e.source = u /\ e.target = v
    IN SelectSeq(nx_edges, joins)

\* nx_graph.nodes[node_id]
NodeData(node_id) ==
    nx_nodes[CHOOSE i \in 1..Len(nx_nodes) : nx_nodes[i].id = node_id]

\* relationship_type is <<>> when the argument is left out (None) and <<r>>
\* when it is the str r; None and '' are falsy
Truthy(relationship_type) == relationship_type # Missing /\ relationship_type[1] # ""

Related(neighbor, relationship) ==
    [node_id |-> neighbor, relationship |-> relationship, data |-> NodeData(neighbor)]

\* The `if relationship_type:` branch: one entry per neighbour that some edge
\* of the type reaches
RelatedOfType(node_id, relationship_type) ==
    LET reached(neighbor) ==
            \E k \in 1..Len(get_edge_data(node_id, neighbor)) :
                get_edge_data(node_id, neighbor)[k].type = relationship_type
        nb == SelectSeq(neighbors(node_id), reached)
    IN [i \in 1..Len(nb) |-> Related(nb[i], relationship_type)]

\* The else branch: one entry per edge
RelatedAll(node_id) ==
    LET nb == neighbors(node_id)
        of(neighbor) ==
            LET edge_data == get_edge_data(node_id, neighbor)
            IN [k \in 1..Len(edge_data) |->
                  Related(neighbor, IF "type" \in DOMAIN edge_data[k]
                                    THEN edge_data[k].type ELSE "unknown")]
    IN Flatten([i \in 1..Len(nb) |-> of(nb[i])])

\* get_related_content without the has_node guard: neighbors() raises on a
\* key the graph does not hold
RelatedUnguarded(node_id, relationship_type) ==
    IF ~HasNode([nodes |-> nx_nodes], node_id)
    THEN [ret |-> <<>>, raised |-> TRUE]
    ELSE [ret |-> IF Truthy(relationship_type)
                  THEN RelatedOfType(node_id, relationship_type[1])
                  ELSE RelatedAll(node_id),
          raised |-> FALSE]

\* get_related_content with the filter left unread
RelatedUnfiltered(node_id, relationship_type) ==
    [ret |-> IF ~HasNode([nodes |-> nx_nodes], node_id) THEN <<>>
             ELSE RelatedAll(node_id),
     raised |-> FALSE]

\* get_related_content: what it returns
RelatedOutcome(node_id, relationship_type) ==
    [ret |-> IF ~HasNode([nodes |-> nx_nodes], node_id) THEN <<>>
             ELSE IF Truthy(relationship_type)
             THEN RelatedOfType(node_id, relationship_type[1])
             ELSE RelatedAll(node_id),
     raised |-> FALSE]

---------------------------------------------------------------------------
(* Query classification (src/nlp/query_processor.py) *)

Letters == { Alphabet[i] : i \in 1..26 } \cup { Capitals[i] : i \in 1..26 }
Digits  == {"0", "1", "2", "3", "4", "5", "6", "7", "8", "9"}

\* \s and \w
IsSpace(c) == c \in {" ", "\t"}
IsWord(c)  == c \in Letters \cup Digits \cup {"_"}

\* re.sub(r'\s+', ' ', s): every run of whitespace becomes one blank
RECURSIVE SquashSpace(_)
SquashSpace(s) ==
    IF s = <<>> THEN <<>>
    ELSE LET front == SquashSpace(SubSeq(s, 1, Len(s) - 1))
             c     == s[Len(s)]
         IN IF ~IsSpace(c) THEN Append(front, c)
            ELSE IF front # <<>> /\ front[Len(front)] = " " THEN front
            ELSE Append(front, " ")

\* str.strip()
RECURSIVE Strip(_)
Strip(s) ==
    IF s # <<>> /\ IsSpace(s[1]) THEN Strip(Tail(s))
    ELSE IF s # <<>> /\ IsSpace(s[Len(s)]) THEN Strip(SubSeq(s, 1, Len(s) - 1))
    ELSE s

\* re.sub(r'[^\w\s\-\.]', ' ', s)
Unpunctuate(s) ==
    [i \in 1..Len(s) |->
        IF IsWord(s[i]) \/ IsSpace(s[i]) \/ s[i] \in {"-", "."} THEN s[i] ELSE " "]

_preprocess_query(query) ==
    Strip(SquashSpace(Unpunctuate(Strip(SquashSpace(Lower(query))))))

\* str.split()
RECURSIVE Split(_)
Split(s) ==
    LET t == Strip(s) IN
    IF t = <<>> THEN <<>>
    ELSE LET n == CHOOSE k \in 1..Len(t) :
                      /\ \A i \in 1..k : ~IsSpace(t[i])
                      /\ k = Len(t) \/ IsSpace(t[k + 1])
         IN <<SubSeq(t, 1, n)>> \o Split(SubSeq(t, n + 1, Len(t)))

---------------------------------------------------------------------------
(* Regular expressions, as re matches them with re.IGNORECASE *)

\* A pattern is a sequence of these
B          == [k |-> "b"]                      \* \b
Str(s)     == [k |-> "str", s |-> s]           \* literal text
Alt(alts)  == [k |-> "alt", alts |-> alts]     \* (?:p1|p2|...), p a pattern
Plus(cls)  == [k |-> "plus", cls |-> cls]      \* [cls]+
ZeroOrMore(cls)   == [k |-> "any", cls |-> cls]       \* [cls]*
One(cls)   == [k |-> "one", cls |-> cls]       \* [cls]
Star(pat)  == [k |-> "star", pat |-> pat]      \* (?:pat)*
Cap(pat)   == [k |-> "cap", pat |-> pat]       \* (pat)
End(from)  == [k |-> "end", from |-> from]     \* the closing bracket of a group

\* (?:w1|w2|...)
Of(words) == Alt([i \in 1..Len(words) |-> <<Str(words[i])>>])
\* \s+ and \s*
Ws  == Plus("\\s")
Ws0 == ZeroOrMore("\\s")

\* a character class, letters taken in both cases
InClass(cls, c) ==
    CASE cls = "\\s"              -> IsSpace(c)
      [] cls = "A-Z"              -> c \in Letters
      [] cls = "a-z"              -> c \in Letters
      [] cls = "A-Z0-9\\-"        -> c \in Letters \cup Digits \cup {"-"}
      [] cls = "A-Za-z0-9"        -> c \in Letters \cup Digits
      [] cls = "A-Za-z0-9\\s\\-"  -> c \in Letters \cup Digits \cup {"-"} \/ IsSpace(c)
      [] cls = "0-9\\."           -> c \in Digits \cup {"."}

\* how many characters of the class follow offset pos
RECURSIVE RunLen(_, _, _)
RunLen(cls, s, pos) ==
    IF pos < Len(s) /\ InClass(cls, s[pos + 1]) THEN 1 + RunLen(cls, s, pos + 1) ELSE 0

AtBoundary(s, pos) ==
    (pos > 0 /\ IsWord(s[pos])) # (pos < Len(s) /\ IsWord(s[pos + 1]))

\* The ways pat matches s from offset pos, in the order the backtracking
\* matcher tries them (greedy, alternatives left to right): the offset after
\* the match and the span of the group
RECURSIVE Match(_, _, _, _)
Match(pat, s, pos, cap) ==
    IF pat = <<>> THEN << [pos |-> pos, cap |-> cap] >>
    ELSE LET h    == Head(pat)
             rest == Tail(pat)
         IN CASE h.k = "b" ->
                   IF AtBoundary(s, pos) THEN Match(rest, s, pos, cap) ELSE <<>>
              [] h.k = "str" ->
                   IF /\ pos + Len(h.s) <= Len(s)
                      /\ Lower(SubSeq(s, pos + 1, pos + Len(h.s))) = Lower(h.s)
                   THEN Match(rest, s, pos + Len(h.s), cap) ELSE <<>>
              [] h.k = "alt" ->
                   Flatten([a \in 1..Len(h.alts) |-> Match(h.alts[a] \o rest, s, pos, cap)])
              [] h.k = "plus" ->
                   LET n == RunLen(h.cls, s, pos)
                   IN Flatten([j \in 1..n |-> Match(rest, s, pos + n + 1 - j, cap)])
              [] h.k = "any" ->
                   LET n == RunLen(h.cls, s, pos)
                   IN Flatten([j \in 1..(n + 1) |-> Match(rest, s, pos + n + 1 - j, cap)])
              [] h.k = "one" ->
                   IF pos < Len(s) /\ InClass(h.cls, s[pos + 1])
                   THEN Match(rest, s, pos + 1, cap) ELSE <<>>
              [] h.k = "star" ->
                   Match(h.pat \o pat, s, pos, cap) \o Match(rest, s, pos, cap)
              [] h.k = "cap" ->
                   Match(h.pat \o <<End(pos)>> \o rest, s, pos, cap)
              [] h.k = "end" ->
                   Match(rest, s, pos, <<h.from, pos>>)

\* re.findall(pattern, s) from offset pos on: the group of every match, the
\* matches taken left to right without overlap
RECURSIVE findall(_, _, _)
findall(pat, s, pos) ==
    IF pos > Len(s) THEN <<>>
    ELSE LET found == Match(pat, s, pos, <<>>)
         IN IF found = <<>> THEN findall(pat, s, pos + 1)
            ELSE <<SubSeq(s, found[1].cap[1] + 1, found[1].cap[2])>>
                     \o findall(pat, s, IF found[1].pos > pos THEN found[1].pos ELSE pos + 1)

---------------------------------------------------------------------------
(* The pattern tables of _init_patterns *)

\* The API templates with the first one matching 'API x' without a preposition
api_patterns_loose ==
    << << B,
         Of(<< Chars("API"), Chars("endpoint"), Chars("service") >>),
         Ws,
         Cap(<< Plus("A-Za-z0-9\\s\\-") >>) >>,
       << B,
         Alt(<< << Str(Chars("how")), Ws, Str(Chars("to")) >>, << Str(Chars("how")), Ws, Str(Chars("do")), Ws, Str(Chars("I")) >> >>),
         Ws,
         Of(<< Chars("use"), Chars("access"), Chars("call") >>),
         Ws,
         Cap(<< Plus("A-Za-z0-9\\s\\-") >>),
         Ws,
         Of(<< Chars("API"), Chars("service") >>) >>,
       << B,
         Of(<< Chars("API"), Chars("service") >>),
         Ws,
         Of(<< Chars("documentation"), Chars("help"), Chars("example") >>),
         Ws,
         Of(<< Chars("for"), Chars("of") >>),
         Ws,
         Cap(<< Plus("A-Za-z0-9\\s\\-") >>) >> >>

location_patterns ==
    <<
       \* \b(?:in|at|near|around|within)\s+([A-Z][a-z]+(?:\s+[A-Z][a-z]+)*)
       << B,
          Of(<< Chars("in"), Chars("at"), Chars("near"), Chars("around"), Chars("within") >>),
          Ws,
          Cap(<< One("A-Z"), Plus("a-z"), Star(<< Ws, One("A-Z"), Plus("a-z") >>) >>) >>,
       \* \b([A-Z][a-z]+(?:\s+[A-Z][a-z]+)*)\s+(?:region|area|zone|city|state)
       << B,
          Cap(<< One("A-Z"), Plus("a-z"), Star(<< Ws, One("A-Z"), Plus("a-z") >>) >>),
          Ws,
          Of(<< Chars("region"), Chars("area"), Chars("zone"), Chars("city"), Chars("state") >>) >>,
       \* \b(?:latitude|longitude|coordinates?)\s+(?:of|for)\s+([A-Z][a-z]+(?:\s+[A-Z][a-z]+)*)
       << B,
          Of(<< Chars("latitude"), Chars("longitude"), Chars("coordinates"), Chars("coordinate") >>),
          Ws,
          Of(<< Chars("of"), Chars("for") >>),
          Ws,
          Cap(<< One("A-Z"), Plus("a-z"), Star(<< Ws, One("A-Z"), Plus("a-z") >>) >>) >> >>

satellite_patterns ==
    <<
       \* \b(?:satellite|mission)\s+(?:data|imagery|information)\s+(?:from|of)\s+([A-Z0-9\-]+)
       << B,
          Of(<< Chars("satellite"), Chars("mission") >>),
          Ws,
          Of(<< Chars("data"), Chars("imagery"), Chars("information") >>),
          Ws,
          Of(<< Chars("from"), Chars("of") >>),
          Ws,
          Cap(<< Plus("A-Z0-9\\-") >>) >>,
       \* \b([A-Z0-9\-]+)\s+(?:satellite|mission|data)
       << B,
          Cap(<< Plus("A-Z0-9\\-") >>),
          Ws,
          Of(<< Chars("satellite"), Chars("mission"), Chars("data") >>) >>,
       \* \b(?:data|imagery)\s+(?:from|of)\s+([A-Z0-9\-]+)
       << B,
          Of(<< Chars("data"), Chars("imagery") >>),
          Ws,
          Of(<< Chars("from"), Chars("of") >>),
          Ws,
          Cap(<< Plus("A-Z0-9\\-") >>) >> >>

sensor_patterns ==
    <<
       \* \b(?:sensor|instrument)\s+(?:data|information)\s+(?:from|of)\s+([A-Z0-9\-]+)
       << B,
          Of(<< Chars("sensor"), Chars("instrument") >>),
          Ws,
          Of(<< Chars("data"), Chars("information") >>),
          Ws,
          Of(<< Chars("from"), Chars("of") >>),
          Ws,
          Cap(<< Plus("A-Z0-9\\-") >>) >>,
       \* \b([A-Z0-9\-]+)\s+(?:sensor|instrument)
       << B,
          Cap(<< Plus("A-Z0-9\\-") >>),
          Ws,
          Of(<< Chars("sensor"), Chars("instrument") >>) >>,
       \* \b(?:data|information)\s+(?:from|of)\s+([A-Z0-9\-]+)\s+(?:sensor|instrument)
       << B,
          Of(<< Chars("data"), Chars("information") >>),
          Ws,
          Of(<< Chars("from"), Chars("of") >>),
          Ws,
          Cap(<< Plus("A-Z0-9\\-") >>),
          Ws,
          Of(<< Chars("sensor"), Chars("instrument") >>) >> >>

data_type_patterns ==
    <<
       \* \b(?:data|product|information)\s+(?:type|format)\s+(?:of|for)\s+([A-Za-z0-9\s\-]+)
       << B,
          Of(<< Chars("data"), Chars("product"), Chars("information") >>),
          Ws,
          Of(<< Chars("type"), Chars("format") >>),
          Ws,
          Of(<< Chars("of"), Chars("for") >>),
          Ws,
          Cap(<< Plus("A-Za-z0-9\\s\\-") >>) >>,
       \* \b([A-Za-z0-9\s\-]+)\s+(?:data|product|information)
       << B,
          Cap(<< Plus("A-Za-z0-9\\s\\-") >>),
          Ws,
          Of(<< Chars("data"), Chars("product"), Chars("information") >>) >>,
       \* \b(?:satellite|remote\s+sensing)\s+([A-Za-z0-9\s\-]+)
       << B,
          Alt(<< << Str(Chars("satellite")) >>, << Str(Chars("remote")), Ws, Str(Chars("sensing")) >> >>),
          Ws,
          Cap(<< Plus("A-Za-z0-9\\s\\-") >>) >> >>

time_patterns ==
    <<
       \* \b(?:data|information|imagery)\s+(?:from|for|between)\s+([A-Za-z0-9\s\-]+)
       << B,
          Of(<< Chars("data"), Chars("information"), Chars("imagery") >>),
          Ws,
          Of(<< Chars("from"), Chars("for"), Chars("between") >>),
          Ws,
          Cap(<< Plus("A-Za-z0-9\\s\\-") >>) >>,
       \* \b(?:temporal|time)\s+(?:coverage|resolution|period)\s+(?:of|for)\s+([A-Za-z0-9\s\-]+)
       << B,
          Of(<< Chars("temporal"), Chars("time") >>),
          Ws,
          Of(<< Chars("coverage"), Chars("resolution"), Chars("period") >>),
          Ws,
          Of(<< Chars("of"), Chars("for") >>),
          Ws,
          Cap(<< Plus("A-Za-z0-9\\s\\-") >>) >>,
       \* \b(?:historical|recent|latest|archived)\s+([A-Za-z0-9\s\-]+)
       << B,
          Of(<< Chars("historical"), Chars("recent"), Chars("latest"), Chars("archived") >>),
          Ws,
          Cap(<< Plus("A-Za-z0-9\\s\\-") >>) >> >>

resolution_patterns ==
    <<
       \* \b(?:spatial|ground)\s+resolution\s+(?:of|for)\s+([0-9\.]+\s*(?:m|km|meters?|kilometers?))
       << B,
          Of(<< Chars("spatial"), Chars("ground") >>),
          Ws,
          Str(Chars("resolution")),
          Ws,
          Of(<< Chars("of"), Chars("for") >>),
          Ws,
          Cap(<< Plus("0-9\\."), Ws0, Of(<< Chars("m"), Chars("km"), Chars("meters"), Chars("meter"), Chars("kilometers"), Chars("kilometer") >>) >>) >>,
       \* \b([0-9\.]+\s*(?:m|km|meters?|kilometers?))\s+(?:resolution|pixel\s+size)
       << B,
          Cap(<< Plus("0-9\\."), Ws0, Of(<< Chars("m"), Chars("km"), Chars("meters"), Chars("meter"), Chars("kilometers"), Chars("kilometer") >>) >>),
          Ws,
          Alt(<< << Str(Chars("resolution")) >>, << Str(Chars("pixel")), Ws, Str(Chars("size")) >> >>) >>,
       \* \b(?:high|low|medium)\s+resolution\s+([A-Za-z0-9\s\-]+)
       << B,
          Of(<< Chars("high"), Chars("low"), Chars("medium") >>),
          Ws,
          Str(Chars("resolution")),
          Ws,
          Cap(<< Plus("A-Za-z0-9\\s\\-") >>) >> >>

file_format_patterns ==
    <<
       \* \b(?:file|data)\s+format\s+(?:of|for)\s+([A-Za-z0-9]+)
       << B,
          Of(<< Chars("file"), Chars("data") >>),
          Ws,
          Str(Chars("format")),
          Ws,
          Of(<< Chars("of"), Chars("for") >>),
          Ws,
          Cap(<< Plus("A-Za-z0-9") >>) >>,
       \* \b([A-Za-z0-9]+)\s+(?:file|data)\s+format
       << B,
          Cap(<< Plus("A-Za-z0-9") >>),
          Ws,
          Of(<< Chars("file"), Chars("data") >>),
          Ws,
          Str(Chars("format")) >>,
       \* \b(?:download|export)\s+(?:as|in)\s+([A-Za-z0-9]+)
       << B,
          Of(<< Chars("download"), Chars("export") >>),
          Ws,
          Of(<< Chars("as"), Chars("in") >>),
          Ws,
          Cap(<< Plus("A-Za-z0-9") >>) >> >>

api_patterns ==
    <<
       \* \b(?:API|endpoint|service)\s+(?:for|to|of)\s+([A-Za-z0-9\s\-]+)
       << B,
          Of(<< Chars("API"), Chars("endpoint"), Chars("service") >>),
          Ws,
          Of(<< Chars("for"), Chars("to"), Chars("of") >>),
          Ws,
          Cap(<< Plus("A-Za-z0-9\\s\\-") >>) >>,
       \* \b(?:how\s+to|how\s+do\s+I)\s+(?:use|access|call)\s+([A-Za-z0-9\s\-]+)\s+(?:API|service)
       << B,
          Alt(<< << Str(Chars("how")), Ws, Str(Chars("to")) >>, << Str(Chars("how")), Ws, Str(Chars("do")), Ws, Str(Chars("I")) >> >>),
          Ws,
          Of(<< Chars("use"), Chars("access"), Chars("call") >>),
          Ws,
          Cap(<< Plus("A-Za-z0-9\\s\\-") >>),
          Ws,
          Of(<< Chars("API"), Chars("service") >>) >>,
       \* \b(?:API|service)\s+(?:documentation|help|example)\s+(?:for|of)\s+([A-Za-z0-9\s\-]+)
       << B,
          Of(<< Chars("API"), Chars("service") >>),
          Ws,
          Of(<< Chars("documentation"), Chars("help"), Chars("example") >>),
          Ws,
          Of(<< Chars("for"), Chars("of") >>),
          Ws,
          Cap(<< Plus("A-Za-z0-9\\s\\-") >>) >> >>

---------------------------------------------------------------------------
(* Entity extraction *)

\* The QueryEntity values, in the order _extract_with_patterns fills them
EntityKinds ==
    << "location", "satellite", "sensor", "data_type", "time_period",
       "resolution", "file_format", "api_endpoint" >>

PatternsOf(kind) ==
    CASE kind = "location"     -> location_patterns
      [] kind = "satellite"    -> satellite_patterns
      [] kind = "sensor"       -> sensor_patterns
      [] kind = "data_type"    -> data_type_patterns
      [] kind = "time_period"  -> time_patterns
      [] kind = "resolution"   -> resolution_patterns
      [] kind = "file_format"  -> file_format_patterns
      [] kind = "api_endpoint" -> api_patterns

\* The matches of one kind: matches.extend(re.findall(pattern, query)) over
\* the patterns of the kind
Matches(patterns, query) ==
    Flatten([p \in 1..Len(patterns) |-> findall(patterns[p], query, 0)])

\* The lists with each element of S once
RECURSIVE Orders(_)
Orders(S) ==
    IF S = {} THEN { <<>> }
    ELSE UNION { { <<x>> \o l : l \in Orders(S \ {x}) } : x \in S }

\* list(set(matches)): the distinct matches, in an order the hashes decide
ListsOfSet(matches) == Orders({ matches[i] : i \in 1..Len(matches) })

\* The dicts the loop of _extract_with_patterns may build from the i-th kind
\* on: a kind is a key when one of its patterns matched
RECURSIVE ExtractFrom(_, _)
ExtractFrom(i, query) ==
    IF i > Len(EntityKinds) THEN { <<>> }
    ELSE LET kind    == EntityKinds[i]
             matches == Matches(PatternsOf(kind), query)
             rest    == ExtractFrom(i + 1, query)
         IN IF matches = <<>> THEN rest
            ELSE { (kind :> l) @@ e : l \in ListsOfSet(matches), e \in rest }

\* The dicts _extract_with_patterns may return
_extract_with_patterns(query) == ExtractFrom(1, query)

\* The queries put to the classifier
ClassifyQueries ==
    { Chars(""),
      Chars("API authentication endpoint"),
      Chars("Hi  there?"),
      Chars("API for login"),
      Chars("download as csv"),
      Chars("rainfall in Kerala"),
      Chars("what data"),
      Chars("help api call"),
      Chars("show network"),
      Chars("weather Delhi"),
      Chars("get data in Goa"),
      Chars("How to use maps API?"),
      Chars("service documentation for maps"),
      Chars("spatial resolution of 10.5 km"),
      Chars("INSAT-3D sensor"),
      Chars("help help") }

\* A query that is no str: None
NotAStr == << "None" >>

IsStr(query) == query # NotAStr

\* pattern_entities = self._extract_with_patterns(query), for the queries of
\* the model
pattern_entities ==
    { [ query    |-> _preprocess_query(q),
        entities |-> _extract_with_patterns(_preprocess_query(q)) ] : q \in ClassifyQueries }

\* What self.nlp(query) gives: it raises, or it is a doc with its entities,
\* noun chunks and tokens
Token(text, pos, is_stop) == [text |-> text, pos |-> pos, is_stop |-> is_stop, lemma |-> text]

NoDoc == [raises |-> TRUE, ents |-> <<>>, noun_chunks |-> <<>>, tokens |-> <<>>]

Labels == {"GPE", "ORG", "PRODUCT", "DATE"}

\* The docs of the model for a query: every word a stop word; the first word
\* a noun, and then no entity and no noun chunk, or the query as a noun chunk,
\* or the last word as an entity, under each label.  A query without a word
\* has the empty doc.
Docs(query) ==
    LET words == Split(query)
        doc(ents, noun_chunks, pos) ==
            [ raises      |-> FALSE,
              ents        |-> ents,
              noun_chunks |-> noun_chunks,
              tokens      |-> [i \in 1..Len(words) |->
                                 Token(words[i], IF i = 1 THEN pos ELSE "DET",
                                       i # 1 \/ pos = "DET")] ]
    IN {NoDoc} \cup
       ( IF words = <<>> THEN { doc(<<>>, <<>>, "DET") }
         ELSE { doc(<<>>, <<>>, "DET"), doc(<<>>, <<>>, "NOUN"), doc(<<>>, <<query>>, "NOUN") }
              \cup { doc(<< [label |-> l, text |-> words[Len(words)]] >>, <<>>, "NOUN") :
                       l \in Labels } )

\* _extract_with_spacy, given the doc
_extract_with_spacy(doc) ==
    LET texts(label) ==
            LET is(ent) == ent.label = label
                sel     == SelectSeq(doc.ents, is)
            IN [i \in 1..Len(sel) |-> sel[i].text]
        ofMission(chunk) ==
            \E word \in {Chars("satellite"), Chars("mission"), Chars("data")} :
                Contains(Lower(chunk), word)
        ofSensor(chunk) ==
            /\ ~ofMission(chunk)
            /\ \E word \in {Chars("sensor"), Chars("instrument")} :
                   Contains(Lower(chunk), word)
        m == [ location  |-> texts("GPE"),
               satellite |-> texts("ORG") \o SelectSeq(doc.noun_chunks, ofMission),
               data_type |-> texts("PRODUCT"),
               sensor    |-> SelectSeq(doc.noun_chunks, ofSensor) ]
    IN IF doc.raises THEN <<>>
       ELSE [kind \in { k \in DOMAIN m : m[k] # <<>> } |-> m[kind]]

\* entities.update(more)
Update(entities, more) == more @@ entities

\* The dicts _extract_entities may return
_extract_entities(query, doc) ==
    LET entities == (CHOOSE p \in pattern_entities : p.query = query).entities
    IN { IF nlp THEN Update(e, _extract_with_spacy(doc)) ELSE e : e \in entities }

---------------------------------------------------------------------------
(* Intent and keywords *)

intent_keywords ==
    << [ intent   |-> "information_retrieval",
         keywords |-> << Chars("what"), Chars("how"), Chars("where"), Chars("when"),
                         Chars("which"), Chars("tell me"), Chars("explain"),
                         Chars("information"), Chars("details"), Chars("about"),
                         Chars("describe") >> ],
       [ intent   |-> "data_download",
         keywords |-> << Chars("download"), Chars("get"), Chars("obtain"), Chars("access"),
                         Chars("retrieve"), Chars("fetch"), Chars("data"), Chars("file"),
                         Chars("product"), Chars("imagery") >> ],
       [ intent   |-> "technical_support",
         keywords |-> << Chars("help"), Chars("support"), Chars("problem"), Chars("issue"),
                         Chars("error"), Chars("trouble"), Chars("fix"), Chars("resolve"),
                         Chars("work"), Chars("function") >> ],
       [ intent   |-> "geospatial_query",
         keywords |-> << Chars("location"), Chars("area"), Chars("region"),
                         Chars("coordinates"), Chars("latitude"), Chars("longitude"),
                         Chars("spatial"), Chars("geographic"), Chars("map"),
                         Chars("boundary") >> ],
       [ intent   |-> "api_help",
         keywords |-> << Chars("api"), Chars("endpoint"), Chars("service"), Chars("call"),
                         Chars("request"), Chars("response"), Chars("code"),
                         Chars("example"), Chars("documentation"), Chars("integration") >> ] >>

\* A float n / d
Ratio(n, d) == [num |-> n, den |-> d]

\* The entity bonuses with 3 for an API endpoint
EntityBonusOfThree(intent, entities) ==
    CASE intent = "geospatial_query" /\ "location" \in DOMAIN entities     -> 2
      [] intent = "api_help"         /\ "api_endpoint" \in DOMAIN entities -> 3
      [] intent = "data_download"    /\ "file_format" \in DOMAIN entities  -> 1
      [] OTHER -> 0

\* The entity that adds to an intent's score, and by how much
EntityBonus(intent, entities) ==
    CASE intent = "geospatial_query" /\ "location" \in DOMAIN entities     -> 2
      [] intent = "api_help"         /\ "api_endpoint" \in DOMAIN entities -> 2
      [] intent = "data_download"    /\ "file_format" \in DOMAIN entities  -> 1
      [] OTHER -> 0

\* keyword in query
KeywordIn(keyword, query) ==
    \E i \in 0..(Len(query) - Len(keyword)) :
        \A j \in 1..Len(keyword) : query[i + j] = keyword[j]

\* The keywords of the i-th intent in the query
KeywordScore(i, query) ==
    Cardinality({ k \in 1..Len(intent_keywords[i].keywords) :
                    KeywordIn(intent_keywords[i].keywords[k], query) })

\* The scores after the keyword loop, for the queries of the model
keyword_scores ==
    { [ query  |-> _preprocess_query(q),
        scores |-> << KeywordScore(1, _preprocess_query(q)),
                      KeywordScore(2, _preprocess_query(q)),
                      KeywordScore(3, _preprocess_query(q)),
                      KeywordScore(4, _preprocess_query(q)),
                      KeywordScore(5, _preprocess_query(q)) >> ] : q \in ClassifyQueries }

\* The scores dict, in the order of intent_keywords
Scores(query, entities) ==
    LET scores == (CHOOSE p \in keyword_scores : p.query = query).scores
    IN << scores[1] + EntityBonus(intent_keywords[1].intent, entities),
          scores[2] + EntityBonus(intent_keywords[2].intent, entities),
          scores[3] + EntityBonus(intent_keywords[3].intent, entities),
          scores[4] + EntityBonus(intent_keywords[4].intent, entities),
          scores[5] + EntityBonus(intent_keywords[5].intent, entities) >>

MaxOf(scores) == CHOOSE m \in { scores[i] : i \in 1..Len(scores) } :
                     \A i \in 1..Len(scores) : scores[i] <= m

\* max(scores, key=scores.get) taking the last of the best
ClassifyLastMax(query, entities) ==
    LET scores    == Scores(query, entities)
        max_score == MaxOf(scores)
        best      == CHOOSE i \in 1..Len(scores) :
                         /\ scores[i] = max_score
                         /\ \A j \in (i + 1)..Len(scores) : scores[j] # max_score
        total_possible ==
            Sum([i \in 1..Len(intent_keywords) |-> Len(intent_keywords[i].keywords)],
                1..Len(intent_keywords))
    IN IF max_score = 0 THEN [intent |-> "general_question", confidence |-> Ratio(1, 2)]
       ELSE [ intent     |-> intent_keywords[best].intent,
              confidence |-> IF max_score > total_possible THEN Ratio(1, 1)
                             ELSE Ratio(max_score, total_possible) ]

\* _classify_intent without the general_question default
ClassifyNoDefault(query, entities) ==
    LET scores    == Scores(query, entities)
        max_score == MaxOf(scores)
        best      == CHOOSE i \in 1..Len(scores) :
                         /\ scores[i] = max_score
                         /\ \A j \in 1..(i - 1) : scores[j] # max_score
        total_possible ==
            Sum([i \in 1..Len(intent_keywords) |-> Len(intent_keywords[i].keywords)],
                1..Len(intent_keywords))
    IN [ intent     |-> intent_keywords[best].intent,
         confidence |-> IF max_score > total_possible THEN Ratio(1, 1)
                        ELSE Ratio(max_score, total_possible) ]

\* _classify_intent: the intent and the confidence
_classify_intent(query, entities) ==
    LET scores    == Scores(query, entities)
        max_score == MaxOf(scores)
        \* max(scores, key=scores.get): the first of the best, in dict order
        best      == CHOOSE i \in 1..Len(scores) :
                         /\ scores[i] = max_score
                         /\ \A j \in 1..(i - 1) : scores[j] # max_score
        total_possible ==
            Sum([i \in 1..Len(intent_keywords) |-> Len(intent_keywords[i].keywords)],
                1..Len(intent_keywords))
    IN IF max_score = 0 THEN [intent |-> "general_question", confidence |-> Ratio(1, 2)]
       ELSE [ intent     |-> intent_keywords[best].intent,
              confidence |-> IF max_score > total_possible THEN Ratio(1, 1)
                             ELSE Ratio(max_score, total_possible) ]

\* The lists _extract_keywords may return
_extract_keywords(query, doc) ==
    LET long(word) == Len(word) > 3
        fallback   == SelectSeq(Split(query), long)
        kept(token) ==
            /\ token.pos \in {"NOUN", "VERB", "ADJ"}
            /\ ~token.is_stop
            /\ Len(token.text) > 2
        tokens == SelectSeq(doc.tokens, kept)
    IN IF ~nlp \/ doc.raises THEN {fallback}
       ELSE ListsOfSet([i \in 1..Len(tokens) |-> Lower(tokens[i].lemma)]
                         \o [i \in 1..Len(doc.ents) |-> Lower(doc.ents[i].text)])

QueryAnalysis(intent, entities, confidence, keywords, original_query, processed_query) ==
    [ intent          |-> intent,
      entities        |-> entities,
      confidence      |-> confidence,
      keywords        |-> keywords,
      original_query  |-> original_query,
      processed_query |-> processed_query ]

---------------------------------------------------------------------------
(* The calls *)

Call(op, arg, ret, raised, note) ==
    [op |-> op, arg |-> arg, ret |-> ret, raised |-> raised, note |-> note]

ContentCount == Cardinality({ i \in 1..Len(nx_nodes) : nx_nodes[i].type = "content" })

\* add_content when self.graph is None
add_content_local(content_data, raises) ==
    LET r == _add_to_local_graph(content_data, None, raises) IN
    /\ ~graph
    /\ Len(r.nodes) <= MaxNodes
    /\ nx_nodes' = r.nodes
    /\ nx_edges' = r.edges
    /\ last' = Call("add_content", content_data, r.node_id, FALSE,
                    [path |-> "local", nodes |-> Len(nx_nodes), edges |-> Len(nx_edges)])
    /\ UNCHANGED <<conversation_history, crawl, running, nlp, graph, embedding_model, neo_count>>

\* add_content when the Neo4j transaction commits: the node's identity goes
\* to _add_to_local_graph and str(identity) is returned
add_content_commit(content_data, raises) ==
    LET identity == <<"neo", neo_count>>
        r == _add_to_local_graph(content_data, identity, raises) IN
    /\ graph
    /\ neo_count < MaxNeo
    /\ Len(r.nodes) <= MaxNodes
    /\ nx_nodes' = r.nodes
    /\ nx_edges' = r.edges
    /\ neo_count' = neo_count + 1
    /\ last' = Call("add_content", content_data, <<"str", neo_count>>, FALSE,
                    [path |-> "commit", nodes |-> Len(nx_nodes), edges |-> Len(nx_edges)])
    /\ UNCHANGED <<conversation_history, crawl, running, nlp, graph, embedding_model>>

\* add_content when the Neo4j part raises: the except clause adds locally
add_content_except(content_data, raises) ==
    LET r == _add_to_local_graph(content_data, None, raises) IN
    /\ graph
    /\ Len(r.nodes) <= MaxNodes
    /\ nx_nodes' = r.nodes
    /\ nx_edges' = r.edges
    /\ last' = Call("add_content", content_data, r.node_id, FALSE,
                    [path |-> "except", nodes |-> Len(nx_nodes), edges |-> Len(nx_edges)])
    /\ UNCHANGED <<conversation_history, crawl, running, nlp, graph, embedding_model, neo_count>>

add_content(content_data, raises) ==
    /\ ContentCount < MaxAdds
    /\ raises => embedding_model
    /\ \/ add_content_local(content_data, raises)
       \/ add_content_commit(content_data, raises)
       \/ add_content_except(content_data, raises)

\* clear_graph; fails: the Neo4j transaction raises
clear_graph(fails) ==
    /\ fails => graph
    /\ neo_count' = IF graph /\ ~fails THEN 0 ELSE neo_count
    /\ nx_nodes' = <<>>
    /\ nx_edges' = <<>>
    /\ last' = Call("clear_graph", "None", "None", FALSE, IF fails THEN "error" ELSE "info")
    /\ UNCHANGED <<conversation_history, crawl, running, nlp, graph, embedding_model>>

get_graph_stats ==
    /\ last' = Call("get_graph_stats", "None", GraphStats, FALSE, "")
    /\ UNCHANGED <<conversation_history, crawl, running, nlp, graph, embedding_model, nx_nodes, nx_edges, neo_count>>

export_graph(format, fails) ==
    LET o == ExportOutcome(format, fails) IN
    /\ fails => format \in Supported
    /\ last' = [ Call("export_graph", format, o.ret, o.raised, o.log)
                   EXCEPT !.note = <<o.log, ExportWritten(format, fails)>> ]
    /\ UNCHANGED <<conversation_history, crawl, running, nlp, graph, embedding_model, nx_nodes, nx_edges, neo_count>>

api_export_graph(format, fails) ==
    LET status == ApiExportStatus(format) IN
    /\ fails => format \in Supported
    /\ last' = Call("GET /graph/export", format, status, status # 200,
                    IF status = 200 THEN ExportWritten(format, fails) ELSE <<>>)
    /\ UNCHANGED <<conversation_history, crawl, running, nlp, graph, embedding_model, nx_nodes, nx_edges, neo_count>>

get_related_content(node_id, relationship_type) ==
    LET o == RelatedOutcome(node_id, relationship_type) IN
    /\ last' = Call("get_related_content",
                    [node_id |-> node_id, relationship_type |-> relationship_type],
                    o.ret, o.raised, "")
    /\ UNCHANGED <<conversation_history, crawl, running, nlp, graph, embedding_model, nx_nodes, nx_edges, neo_count>>

\* A search that keeps the score of each result on its node
search_content_scoring(query, limit, raises) ==
    LET results == SearchResults(query, limit, raises)
        scored(n) == \E k \in 1..Len(results) : results[k].node_id = n.id
        keep(n) == [ a \in DOMAIN n \cup {"similarity"} |->
                       IF a = "similarity" THEN "scored" ELSE n[a] ]
    IN /\ raises => embedding_model
       /\ nx_nodes' = [ i \in 1..Len(nx_nodes) |->
                          IF scored(nx_nodes[i]) THEN keep(nx_nodes[i]) ELSE nx_nodes[i] ]
       /\ last' = Call("search_content", [query |-> query, limit |-> limit],
                       results, FALSE, SearchPath(raises))
       /\ UNCHANGED <<conversation_history, crawl, running, nlp, graph, embedding_model,
                      nx_edges, neo_count>>

search_content(query, limit, raises) ==
    /\ raises => embedding_model
    /\ last' = Call("search_content", [query |-> query, limit |-> limit],
                    SearchResults(query, limit, raises), FALSE, SearchPath(raises))
    /\ UNCHANGED <<conversation_history, crawl, running, nlp, graph, embedding_model, nx_nodes, nx_edges, neo_count>>

\* The except clause of process_query taking the query for a general question
UnknownAsGeneral(query) ==
    QueryAnalysis("general_question", <<>>, Ratio(1, 2), <<>>, query, query)

\* The QueryAnalysis of the except clause of process_query
UnknownAnalysis(query) ==
    QueryAnalysis("unknown", <<>>, Ratio(0, 1), <<>>, query, query)

\* What QueryProcessor.process_query may return, with the doc of the tagger:
\* query.lower() raises on a query that is no str, and the except clause
\* answers; the tagger raising is caught where it is called
Analyses(query) ==
    IF ~IsStr(query) THEN { [ret |-> UnknownAnalysis(query), doc |-> NoDoc] }
    ELSE LET processed_query == _preprocess_query(query) IN
         UNION { UNION { { [ ret |-> QueryAnalysis(_classify_intent(processed_query, entities).intent,
                                                  entities,
                                                  _classify_intent(processed_query, entities).confidence,
                                                  keywords, query, processed_query),
                            doc |-> doc ] :
                             keywords \in _extract_keywords(processed_query, doc) } :
                         entities \in _extract_entities(processed_query, doc) } :
                 doc \in (IF nlp THEN Docs(processed_query) ELSE {NoDoc}) }

\* QueryProcessor.process_query
process_query(query) ==
    \E analysis \in Analyses(query) :
        /\ last' = Call("process_query", query, analysis.ret, FALSE, analysis.doc)
        /\ UNCHANGED <<conversation_history, crawl, running, nlp, graph, embedding_model,
                       nx_nodes, nx_edges, neo_count>>

---------------------------------------------------------------------------
(* The orchestrator *)

\* The handler AIHelpBot.process_query picks for an intent
Handler(intent) ==
    CASE intent = "geospatial_query"  -> "_handle_spatial_query"
      [] intent = "data_download"     -> "_handle_data_download_query"
      [] intent = "api_help"          -> "_handle_api_query"
      [] intent = "technical_support" -> "_handle_support_query"
      [] OTHER                        -> "_handle_general_query"

\* The handlers with _handle_support_query searching the raw query
SearchArgsRawSupport(handler, query) ==
    CASE handler = "_handle_spatial_query"       -> [query |-> query, limit |-> 5]
      [] handler = "_handle_data_download_query" -> [query |-> query, limit |-> 10]
      [] handler = "_handle_api_query"           -> [query |-> Chars("API ") \o query, limit |-> 8]
      [] handler = "_handle_support_query"       -> [query |-> query, limit |-> 6]
      [] handler = "_handle_general_query"       -> [query |-> query, limit |-> 8]

\* The search_content call of a handler
SearchArgs(handler, query) ==
    CASE handler = "_handle_spatial_query"       -> [query |-> query, limit |-> 5]
      [] handler = "_handle_data_download_query" -> [query |-> query, limit |-> 10]
      [] handler = "_handle_api_query"           -> [query |-> Chars("API ") \o query, limit |-> 8]
      [] handler = "_handle_support_query"       ->
             [query |-> Chars("help support ") \o query, limit |-> 6]
      [] handler = "_handle_general_query"       -> [query |-> query, limit |-> 8]

response_type(handler) ==
    CASE handler = "_handle_spatial_query"       -> "spatial"
      [] handler = "_handle_data_download_query" -> "data_download"
      [] handler = "_handle_api_query"           -> "api_help"
      [] handler = "_handle_support_query"       -> "technical_support"
      [] handler = "_handle_general_query"       -> "general"

\* The response of a handler: search_content raises on a query that is no
\* str (query.lower()), and the handler answers with _create_error_response
Response(handler, analysis, args, raises) ==
    IF ~IsStr(args.query)
    THEN [ success |-> FALSE, response_type |-> response_type(handler) ]
    ELSE [ success                 |-> TRUE,
           response_type           |-> response_type(handler),
           query_analysis          |-> [ intent     |-> analysis.intent,
                                         confidence |-> analysis.confidence,
                                         entities   |-> analysis.entities ],
           knowledge_graph_results |-> SearchResults(args.query, args.limit, raises) ]

\* AIHelpBot.process_query; raises: encode raises in search_content.  The
\* note holds the handlers run and the search_content calls made.
AIHelpBot_process_query(user_query, raises) ==
    /\ raises => embedding_model
    /\ \E analysis \in Analyses(user_query) :
           LET handler  == Handler(analysis.ret.intent)
               args     == SearchArgs(handler, user_query)
               response == Response(handler, analysis.ret, args, raises)
           IN /\ conversation_history' =
                     Append(conversation_history,
                            [user_query |-> user_query, response |-> response])
              /\ last' = Call("AIHelpBot.process_query", user_query, response, FALSE,
                              [handlers |-> <<handler>>, searches |-> <<args>>])
    /\ UNCHANGED <<crawl, running, nlp, graph, embedding_model, nx_nodes, nx_edges, neo_count>>

\* history[-limit:] returning nothing for limit 0
LastRecordsNoneForZero(history, limit) ==
    IF history = <<>> \/ limit = 0 THEN <<>>
    ELSE IF limit > 0 THEN SubSeq(history, Max(Len(history) - limit, 0) + 1, Len(history))
    ELSE SubSeq(history, Min(0 - limit, Len(history)) + 1, Len(history))

\* self.conversation_history[-limit:] if self.conversation_history else []:
\* -0 is 0, and history[0:] is the whole list
LastRecords(history, limit) ==
    IF history = <<>> THEN <<>>
    ELSE IF limit > 0 THEN SubSeq(history, Max(Len(history) - limit, 0) + 1, Len(history))
    ELSE SubSeq(history, Min(0 - limit, Len(history)) + 1, Len(history))

get_conversation_history(limit) ==
    /\ last' = Call("get_conversation_history", limit,
                    LastRecords(conversation_history, limit), FALSE, "")
    /\ UNCHANGED <<conversation_history, crawl, running, nlp, graph, embedding_model,
                   nx_nodes, nx_edges, neo_count>>

clear_conversation_history ==
    /\ conversation_history' = <<>>
    /\ last' = Call("clear_conversation_history", "None", "None", FALSE, "")
    /\ UNCHANGED <<crawl, running, nlp, graph, embedding_model, nx_nodes, nx_edges, neo_count>>

---------------------------------------------------------------------------
(* The crawler (src/scrapers/mosdac_scraper.py) *)

\* The pages of the portal
Urls == {"/", "/a", "/b"}

\* The links _is_valid_link lets through, page by page
Webs == [Urls -> SUBSET Urls]

\* The page a crawl starts from: the pages are alike but for their links
StartUrls == {"/"}

\* No discover_content call running
NoCrawl == [pc |-> "idle"]

\* The `for link in new_links` loop without the visited_urls test
RECURSIVE AddLinksUnvisited(_, _, _)
AddLinksUnvisited(c, new_links, depth) ==
    IF new_links = <<>> THEN c
    ELSE LET link == Head(new_links) IN
         IF link \notin c.discovered_urls
         THEN AddLinksUnvisited(
                  [c EXCEPT !.discovered_urls = @ \cup {link},
                            !.urls_to_visit =
                                IF depth + 1 <= c.max_depth
                                THEN Append(@, [url |-> link, depth |-> depth + 1])
                                ELSE @],
                  Tail(new_links), depth)
         ELSE AddLinksUnvisited(c, Tail(new_links), depth)

\* The `for link in new_links` loop of discover_content
RECURSIVE AddLinks(_, _, _)
AddLinks(c, new_links, depth) ==
    IF new_links = <<>> THEN c
    ELSE LET link == Head(new_links) IN
         IF link \notin c.visited_urls /\ link \notin c.discovered_urls
         THEN AddLinks(
                  [c EXCEPT !.discovered_urls = @ \cup {link},
                            !.urls_to_visit =
                                IF depth + 1 <= c.max_depth
                                THEN Append(@, [url |-> link, depth |-> depth + 1])
                                ELSE @],
                  Tail(new_links), depth)
         ELSE AddLinks(c, Tail(new_links), depth)

\* discover_content up to its loop.  web: the links of each page.
discover_content(web, start_url, max_depth) ==
    /\ crawl.pc = "idle"
    /\ crawl' = [ pc              |-> "while",
                  web             |-> web,
                  start_url       |-> start_url,
                  max_depth       |-> max_depth,
                  discovered_urls |-> {},
                  urls_to_visit   |-> << [url |-> start_url, depth |-> 0] >>,
                  visited_urls    |-> {},
                  fetched         |-> <<>> ]
    /\ UNCHANGED <<last, conversation_history, running, nlp, graph, embedding_model,
                   nx_nodes, nx_edges, neo_count>>

\* One turn of `while urls_to_visit`.  html: get_page_content returned the
\* page; when FALSE it returned None or the try block raised, and the turn
\* adds nothing.  fetched keeps the get_page_content calls made.
discover_turn(html) ==
    /\ crawl.pc = "while"
    /\ crawl.urls_to_visit # <<>>
    /\ LET current == Head(crawl.urls_to_visit)
           popped  == [crawl EXCEPT !.urls_to_visit = Tail(@)]
       IN IF current.depth > crawl.max_depth \/ current.url \in crawl.visited_urls
          THEN crawl' = popped
          ELSE LET got == [popped EXCEPT !.visited_urls = @ \cup {current.url},
                                         !.fetched = Append(@, current)]
               IN IF ~html THEN crawl' = got
                  ELSE \E new_links \in Orders(crawl.web[current.url]) :
                           crawl' = AddLinks(got, new_links, current.depth)
    /\ UNCHANGED <<last, conversation_history, running, nlp, graph, embedding_model,
                   nx_nodes, nx_edges, neo_count>>

\* return list(discovered_urls)
discover_return ==
    /\ crawl.pc = "while"
    /\ crawl.urls_to_visit = <<>>
    /\ crawl' = [crawl EXCEPT !.pc = "returned"]
    /\ \E ret \in Orders(crawl.discovered_urls) :
           last' = Call("discover_content",
                        [start_url |-> crawl.start_url, max_depth |-> crawl.max_depth],
                        ret, FALSE, "")
    /\ UNCHANGED <<conversation_history, running, nlp, graph, embedding_model,
                   nx_nodes, nx_edges, neo_count>>

---------------------------------------------------------------------------
(* add_content statement by statement, on the event loop of the API *)

\* Every handler of src/api/main.py is an `async def` on one event loop, and
\* shares the one AIHelpBot.  The loop hands control to another handler only
\* where the running coroutine awaits.  POST /scrape awaits
\* scrape_and_update_knowledge, which calls add_content as a plain function:
\* add_content, _add_to_local_graph and the _process_* methods hold no await.

\* A scheduler that preempts between any two statements, as threads would
SwitchAnywhere == TRUE

\* The loop may run another handler: no add_content call is under way
MaySwitch == running = <<>>

Frame(content_data, path, ret, st, after) ==
    [ arg    |-> content_data,
      path   |-> path,
      ret    |-> ret,
      ops    |-> st.ops,
      before |-> [nodes |-> nx_nodes, edges |-> nx_edges],
      after  |-> [nodes |-> after.nodes, edges |-> after.edges] ]

\* add_content is entered; path: which of its branches the call takes
add_content_enter(content_data, raises, path) ==
    LET node_id == IF path = "commit" THEN <<"neo", neo_count>> ELSE None
        st      == Statements(content_data, node_id, raises)
        after   == _add_to_local_graph(content_data, node_id, raises)
        ret     == IF path = "commit" THEN <<"str", neo_count>> ELSE st.key
    IN /\ running = <<>>
       /\ ContentCount < MaxAdds
       /\ raises => embedding_model
       /\ path = "local" <=> ~graph
       /\ path = "commit" => neo_count < MaxNeo
       /\ Len(after.nodes) <= MaxNodes
       /\ running' = << Frame(content_data, path, ret, st, after) >>
       /\ neo_count' = IF path = "commit" THEN neo_count + 1 ELSE neo_count
       /\ UNCHANGED <<graph, embedding_model, nx_nodes, nx_edges, last, nlp, conversation_history, crawl>>

\* the next add_node or add_edge of the call
add_content_statement ==
    /\ running # <<>>
    /\ running[1].ops # <<>>
    /\ LET G == Apply([nodes |-> nx_nodes, edges |-> nx_edges], <<Head(running[1].ops)>>)
       IN /\ nx_nodes' = G.nodes
          /\ nx_edges' = G.edges
    /\ running' = << [running[1] EXCEPT !.ops = Tail(@)] >>
    /\ UNCHANGED <<graph, embedding_model, neo_count, last, nlp, conversation_history, crawl>>

\* add_content returns
add_content_return ==
    /\ running # <<>>
    /\ running[1].ops = <<>>
    /\ last' = Call("add_content", running[1].arg, running[1].ret, FALSE,
                    [path  |-> running[1].path,
                     nodes |-> Len(running[1].before.nodes),
                     edges |-> Len(running[1].before.edges)])
    /\ running' = <<>>
    /\ UNCHANGED <<graph, embedding_model, nx_nodes, nx_edges, neo_count, nlp, conversation_history, crawl>>

---------------------------------------------------------------------------
(* Specifications *)

Init ==
    /\ graph \in BOOLEAN
    /\ embedding_model \in BOOLEAN
    /\ nx_nodes = <<>>
    /\ nx_edges = <<>>
    /\ neo_count = 0
    /\ last = Call("__init__", "None", "None", FALSE, "")
    /\ running = <<>>
    /\ nlp = FALSE
    /\ conversation_history = <<>>
    /\ crawl = NoCrawl

AddContent == \E p \in Payloads, raises \in BOOLEAN : add_content(p, raises)
ClearGraph == \E fails \in BOOLEAN : clear_graph(fails)

Next == AddContent \/ ClearGraph

\* Ingestion
Spec == Init /\ [][Next]_vars

AddReadable    == \E p \in ReadPayloads, raises \in BOOLEAN : add_content(p, raises)
GetGraphStats  == get_graph_stats
ExportGraph    == \E f \in Formats, fails \in BOOLEAN : export_graph(f, fails)
ApiExportGraph == \E f \in Formats, fails \in BOOLEAN : api_export_graph(f, fails)

\* The keys a caller asks about: the keys of the graph, the str of a Neo4j
\* identity, and a key never given out
NodeIds ==
    { nx_nodes[i].id : i \in 1..Len(nx_nodes) } \cup { <<"str", 0>>, <<"missing-id", 0>> }

RelationshipTypes ==
    Opt({"", "contains", "has_answer", "has_download", "has_specifications", "related_to"})

GetRelatedContent ==
    \E node_id \in NodeIds, relationship_type \in RelationshipTypes :
        get_related_content(node_id, relationship_type)

ReadNext ==
    AddReadable \/ ClearGraph \/ GetGraphStats \/ ExportGraph \/ ApiExportGraph
        \/ GetRelatedContent

\* Ingestion, statistics and export
ReadSpec == Init /\ [][ReadNext]_vars

\* POST /scrape, as far as the graph goes
ScrapeEnter ==
    \E p \in ReadPayloads, raises \in BOOLEAN, path \in {"local", "commit", "except"} :
        add_content_enter(p, raises, path)
ScrapeStatement == add_content_statement
ScrapeReturn    == add_content_return

\* The handlers that read the graph, and DELETE of the graph, when the loop
\* may run them
LoopSearch  == MaySwitch /\ \E q \in {sSat, sB} : search_content(q, MaxLimit, FALSE)
LoopRelated == MaySwitch /\ \E node_id \in NodeIds : get_related_content(node_id, Missing)
LoopStats   == MaySwitch /\ get_graph_stats
LoopExport  == MaySwitch /\ export_graph("json", FALSE)
LoopClear   == MaySwitch /\ clear_graph(FALSE)

LoopNext ==
    ScrapeEnter \/ ScrapeStatement \/ ScrapeReturn
        \/ LoopSearch \/ LoopRelated \/ LoopStats \/ LoopExport \/ LoopClear

\* Ingestion statement by statement, interleaved with the readers
LoopSpec == Init /\ [][LoopNext]_vars

\* QueryProcessor(): the spaCy model loaded, or not
ClassifyInit ==
    /\ nlp \in BOOLEAN
    /\ graph = FALSE
    /\ embedding_model = FALSE
    /\ nx_nodes = <<>>
    /\ nx_edges = <<>>
    /\ neo_count = 0
    /\ running = <<>>
    /\ conversation_history = <<>>
    /\ crawl = NoCrawl
    /\ last = Call("__init__", "None", "None", FALSE, "")

ProcessQuery == \E query \in ClassifyQueries \cup {NotAStr} : process_query(query)

ClassifyNext == ProcessQuery

\* Query classification
ClassifySpec == ClassifyInit /\ [][ClassifyNext]_vars

Queries == {sSat, sData, sB, sQ}
Limits  == 0..MaxLimit

AddSearchable == \E p \in SearchPayloads, raises \in BOOLEAN : add_content(p, raises)
SearchContent == \E q \in Queries, limit \in Limits, raises \in BOOLEAN :
                    search_content(q, limit, raises)

SearchNext == AddSearchable \/ ClearGraph \/ SearchContent

\* Ingestion and search
SearchSpec == Init /\ [][SearchNext]_vars

\* The questions put to a graph of every node kind
ReadQueries == {sA, sData, sSat}

ReadSearch ==
    \E q \in ReadQueries, limit \in Limits, raises \in BOOLEAN : search_content(q, limit, raises)

ReadExport == \E format \in Formats : export_graph(format, FALSE)

ReadRelated == \E node_id \in NodeIds : get_related_content(node_id, Missing)

QueryNext ==
    AddReadable \/ ClearGraph \/ ReadSearch \/ ReadRelated \/ GetGraphStats \/ ReadExport

\* Ingestion and every reader
QuerySpec == Init /\ [][QueryNext]_vars

\* A page the questions of the conversations find
botDoc == [title |-> Chars("What data"), text_content |-> Chars("API help api call")]

BotPayloads == { Record(<<"general">>, botDoc, Missing, Missing, Missing, Missing) }

\* A question for each handler, and None
BotQueries ==
    { Chars("spatial resolution of 10.5 km"), Chars("download as csv"),
      Chars("help api call"), Chars("help help"), Chars("what data"),
      Chars("Hi  there?"), NotAStr }

AddAnswerable == \E p \in BotPayloads, raises \in BOOLEAN : add_content(p, raises)

\* One question a conversation
Ask ==
    /\ conversation_history = <<>>
    /\ \E q \in BotQueries, raises \in BOOLEAN : AIHelpBot_process_query(q, raises)

ClearConversationHistory == clear_conversation_history

BotNext == AddAnswerable \/ ClearGraph \/ Ask \/ ClearConversationHistory

\* Questions over a graph
BotSpec == Init /\ [][BotNext]_vars

HistoryQueries == { Chars("what data"), Chars("help help"), Chars("Hi  there?") }

HistoryLimits == -1..MaxLimit

AskOn ==
    /\ Len(conversation_history) < MaxHistory
    /\ \E q \in HistoryQueries : AIHelpBot_process_query(q, FALSE)

GetConversationHistory == \E limit \in HistoryLimits : get_conversation_history(limit)

HistoryNext == AskOn \/ GetConversationHistory \/ ClearConversationHistory

\* Conversations
HistorySpec == Init /\ [][HistoryNext]_vars

\* MOSDACScraper()
CrawlInit ==
    /\ crawl = NoCrawl
    /\ nlp = FALSE
    /\ graph = FALSE
    /\ embedding_model = FALSE
    /\ nx_nodes = <<>>
    /\ nx_edges = <<>>
    /\ neo_count = 0
    /\ running = <<>>
    /\ conversation_history = <<>>
    /\ last = Call("__init__", "None", "None", FALSE, "")

DiscoverContent ==
    \E web \in Webs, start_url \in StartUrls, max_depth \in 0..MaxDepth :
        discover_content(web, start_url, max_depth)

DiscoverTurn == \E html \in BOOLEAN : discover_turn(html)

DiscoverReturn == discover_return

CrawlNext == DiscoverContent \/ DiscoverTurn \/ DiscoverReturn

\* A crawl of a portal
CrawlSpec == CrawlInit /\ [][CrawlNext]_vars

\* A crawl that was started runs on: the loop takes its turns and returns
CrawlFairSpec == CrawlSpec /\ WF_vars(DiscoverTurn) /\ WF_vars(DiscoverReturn)

---------------------------------------------------------------------------
(* What the last add_content call added *)

IsAdd == last.op = "add_content"

\* content_data.get('content_type') of the last call; "None" when missing
LastType == Get(last.arg.content_type, "None")

NewNodes == SubSeq(nx_nodes, last.note.nodes + 1, Len(nx_nodes))
NewEdges == SubSeq(nx_edges, last.note.edges + 1, Len(nx_edges))

CountNodes(seq, kind) ==
    Cardinality({ i \in 1..Len(seq) : "type" \in DOMAIN seq[i] /\ seq[i].type = kind })

CountEdges(seq, relation) ==
    Cardinality({ i \in 1..Len(seq) : seq[i].type = relation })

KindOf(id) ==
    LET n == nx_nodes[CHOOSE i \in 1..Len(nx_nodes) : nx_nodes[i].id = id]
    IN IF "type" \in DOMAIN n THEN n.type ELSE "unknown"

IsNew(id) == \E i \in 1..Len(NewNodes) : NewNodes[i].id = id

\* Every new edge of relation goes from a node of kind `from` to a new node of
\* kind `to`, and no two of them reach the same node
EdgesJoin(relation, from, to) ==
    \A i \in 1..Len(NewEdges) :
        NewEdges[i].type = relation =>
            /\ HasNode([nodes |-> nx_nodes], NewEdges[i].source)
            /\ HasNode([nodes |-> nx_nodes], NewEdges[i].target)
            /\ KindOf(NewEdges[i].source) = from
            /\ IsNew(NewEdges[i].source)
            /\ KindOf(NewEdges[i].target) = to
            /\ IsNew(NewEdges[i].target)
            /\ \A j \in 1..Len(NewEdges) :
                   (NewEdges[j].type = relation
                    /\ NewEdges[j].target = NewEdges[i].target) => j = i

\* C1: an add_content of a 'faq' record with N question/answer pairs adds one
\* content node, N question nodes, N answer nodes, N 'contains' edges from the
\* content node to the questions, N 'has_answer' edges from the questions to
\* the answers, and nothing else.
C1_FaqGain ==
    (IsAdd /\ LastType = "faq") =>
        LET N == Len(Get(last.arg.faqs, <<>>)) IN
        /\ Len(NewNodes) = 1 + 2 * N
        /\ CountNodes(NewNodes, "content") = 1
        /\ CountNodes(NewNodes, "question") = N
        /\ CountNodes(NewNodes, "answer") = N
        /\ Len(NewEdges) = 2 * N
        /\ CountEdges(NewEdges, "contains") = N
        /\ CountEdges(NewEdges, "has_answer") = N
        /\ EdgesJoin("contains", "content", "question")
        /\ EdgesJoin("has_answer", "question", "answer")

C1_Witness ==
    /\ IsAdd /\ LastType = "faq"
    /\ Len(Get(last.arg.faqs, <<>>)) = 2
    /\ CountEdges(NewEdges, "has_answer") = 2

\* C2: in every state add_content and clear_graph reach, the source and the
\* target of every edge are nodes of the graph, and every question node has
\* exactly one outgoing 'has_answer' edge, which ends at an answer node.
C2_EdgesSound ==
    /\ \A i \in 1..Len(nx_edges) :
          /\ HasNode([nodes |-> nx_nodes], nx_edges[i].source)
          /\ HasNode([nodes |-> nx_nodes], nx_edges[i].target)
    /\ \A i \in 1..Len(nx_nodes) :
          ("type" \in DOMAIN nx_nodes[i] /\ nx_nodes[i].type = "question") =>
              LET out == { j \in 1..Len(nx_edges) :
                             /\ nx_edges[j].source = nx_nodes[i].id
                             /\ nx_edges[j].type = "has_answer" }
              IN /\ Cardinality(out) = 1
                 /\ \A j \in out : /\ HasNode([nodes |-> nx_nodes], nx_edges[j].target)
                                    /\ KindOf(nx_edges[j].target) = "answer"

C2_Witness ==
    /\ last.op = "add_content"
    /\ last.note.nodes > 0
    /\ CountNodes(nx_nodes, "question") = 1
    /\ CountNodes(nx_nodes, "content") = 2

\* C3: an add_content of a 'data' record with k download links adds one
\* content node, k download_link nodes each with one 'has_download' edge from
\* the content node, and one specifications node with one
\* 'has_specifications' edge exactly when data_info holds specifications; two
\* links and specifications on an empty graph give 4 nodes and 3 edges in the
\* statistics.
C3_DataGain ==
    (IsAdd /\ LastType = "data") =>
        LET k     == Len(Get(last.arg.download_links, <<>>))
            specs == IF "specifications" \in Get(last.arg.data_info, {}) THEN 1 ELSE 0
        IN
        /\ Len(NewNodes) = 1 + k + specs
        /\ CountNodes(NewNodes, "content") = 1
        /\ CountNodes(NewNodes, "download_link") = k
        /\ CountNodes(NewNodes, "specifications") = specs
        /\ Len(NewEdges) = k + specs
        /\ CountEdges(NewEdges, "has_download") = k
        /\ CountEdges(NewEdges, "has_specifications") = specs
        /\ EdgesJoin("has_download", "content", "download_link")
        /\ EdgesJoin("has_specifications", "content", "specifications")
        /\ (k = 2 /\ specs = 1 /\ last.note.nodes = 0) =>
               (GraphStats.total_nodes = 4 /\ GraphStats.total_edges = 3)

C3_Witness ==
    /\ IsAdd /\ LastType = "data"
    /\ Len(Get(last.arg.download_links, <<>>)) = 2
    /\ "specifications" \in Get(last.arg.data_info, {})
    /\ last.note.nodes = 0
    /\ Len(nx_nodes) = 4

\* C4: an add_content of a record whose content_type is not 'faq', 'data' or
\* 'api' ('general', or no content_type at all) adds one content node and no
\* edge, also when the record holds faqs, data_info, download_links and
\* api_info.
C4_OtherTypeGain ==
    (IsAdd /\ LastType \notin {"faq", "data", "api"}) =>
        /\ Len(NewNodes) = 1
        /\ CountNodes(NewNodes, "content") = 1
        /\ Len(NewEdges) = 0

C4_Witness ==
    /\ IsAdd
    /\ LastType = "None"
    /\ last.arg.faqs # Missing
    /\ last.arg.download_links # Missing
    /\ last.arg.data_info # Missing
    /\ last.arg.api_info # Missing
    /\ last.note.nodes > 0

\* C5: an add_content step raises the node count, and leaves every node and
\* every edge the graph had in its place with its kind and its attributes.
C5_AddOnlyGrows ==
    [][ (last'.op = "add_content") =>
            /\ Len(nx_nodes') > Len(nx_nodes)
            /\ SubSeq(nx_nodes', 1, Len(nx_nodes)) = nx_nodes
            /\ SubSeq(nx_edges', 1, Len(nx_edges)) = nx_edges ]_vars

C5_Witness ==
    /\ IsAdd
    /\ last.note.nodes >= 3
    /\ last.note.edges >= 2
    /\ Len(nx_nodes) > last.note.nodes

---------------------------------------------------------------------------
(* Statistics and export *)

Keys(d) == DOMAIN d

\* C6: in every graph state, the empty graph included, get_graph_stats returns
\* total_nodes, total_edges, a node-kind histogram and an edge-relation
\* histogram; total_nodes is the number of nodes and the sum of the node
\* histogram, total_edges the number of edges and the sum of the edge histogram.
C6_StatsRecord ==
    last.op = "get_graph_stats" =>
        /\ Keys(last.ret) = {"total_nodes", "total_edges", "node_types", "edge_types"}
        /\ last.ret.total_nodes = Len(nx_nodes)
        /\ last.ret.total_nodes = Sum(last.ret.node_types, Keys(last.ret.node_types))
        /\ last.ret.total_edges = Len(nx_edges)
        /\ last.ret.total_edges = Sum(last.ret.edge_types, Keys(last.ret.edge_types))

\* C7: an export with a format other than json, gml and graphml ends in an
\* error its caller sees, and leaves the graph as it was.
C7_UnsupportedExportReported ==
    [][ (last'.op \in {"export_graph", "GET /graph/export"}
         /\ last'.arg \notin Supported) =>
            /\ last'.raised
            /\ UNCHANGED <<nx_nodes, nx_edges>> ]_vars

---------------------------------------------------------------------------
(* Search *)

IsSearch == last.op = "search_content"

Position(id) == CHOOSE i \in 1..Len(nx_nodes) : nx_nodes[i].id = id

\* The last search without its truncation
Untruncated ==
    IF last.note = "embedding" THEN SemanticSearch(last.arg.query, Len(nx_nodes))
    ELSE _text_search(last.arg.query, Len(nx_nodes))

\* C8: a search with limit >= 0 returns at most limit results, and no result
\* has a score above the score of the result before it, with and without the
\* embedding provider.
C8_SearchBounded ==
    (IsSearch /\ last.arg.limit >= 0) =>
        /\ Len(last.ret) <= last.arg.limit
        /\ \A i \in 1..(Len(last.ret) - 1) :
               ~ScoreLess(last.ret[i].similarity, last.ret[i + 1].similarity)

C8_Witness ==
    /\ IsSearch
    /\ last.note = "embedding"
    /\ last.arg.limit = 2
    /\ Len(last.ret) = 2
    /\ Len(Untruncated) = 3
    /\ ScoreLess(last.ret[2].similarity, last.ret[1].similarity)

\* C9: among results of equal score the node inserted first comes first, and
\* when the truncation drops a node whose score equals that of a node kept,
\* the node kept was inserted first.
C9_TiesByInsertion ==
    IsSearch =>
        /\ \A i, j \in 1..Len(last.ret) :
               (i < j /\ ScoreEq(last.ret[i].similarity, last.ret[j].similarity)) =>
                   Position(last.ret[i].node_id) < Position(last.ret[j].node_id)
        /\ \A i \in 1..Len(last.ret), k \in 1..Len(Untruncated) :
               ((\A j \in 1..Len(last.ret) : last.ret[j].node_id # Untruncated[k].node_id)
                /\ ScoreEq(last.ret[i].similarity, Untruncated[k].similarity)) =>
                   Position(last.ret[i].node_id) < Position(Untruncated[k].node_id)

C9_Witness ==
    /\ IsSearch
    /\ last.note = "lexical"
    /\ last.arg.limit = 1
    /\ Len(last.ret) = 1
    /\ Len(Untruncated) = 2
    /\ ScoreEq(Untruncated[1].similarity, Untruncated[2].similarity)

ZeroNorm(query) == Dot(encode(query), encode(query)) = 0

\* C10, as claimed: a search whose query has a zero-norm embedding or no
\* embedding (no provider, or encode raises) returns what lexical scoring
\* returns for the same query and limit, and does not raise.
C10_ZeroNormFallsBack ==
    (IsSearch /\ (last.note \in {"lexical", "fallback"} \/ ZeroNorm(last.arg.query))) =>
        /\ ~last.raised
        /\ last.ret = _text_search(last.arg.query, last.arg.limit)

\* C10, amended: a search whose query has no embedding (no provider, or encode
\* raises) returns what lexical scoring returns for the same query and limit;
\* a search whose query embedding has norm zero stays in embedding mode and
\* returns no result; neither raises.
C10_AbsentFallsBackZeroNormEmpty ==
    IsSearch =>
        /\ ~last.raised
        /\ last.note \in {"lexical", "fallback"} =>
               last.ret = _text_search(last.arg.query, last.arg.limit)
        /\ (last.note = "embedding" /\ ZeroNorm(last.arg.query)) => last.ret = <<>>

C10_Witness ==
    /\ IsSearch
    /\ last.note = "embedding"
    /\ ZeroNorm(last.arg.query)
    /\ last.ret = <<>>
    /\ Len(_text_search(last.arg.query, last.arg.limit)) = 2

\* similarity of the last search's query and a node
Sim(n) == _cosine_similarity(encode(last.arg.query), n.embedding)

\* s > 0.30, for s = num / sqrt(den2)
Above30(s) == s.num > 0 /\ 100 * Sq(s.num) > 9 * s.den2

\* s = 0.30
Exactly30(s) == s.num > 0 /\ 100 * Sq(s.num) = 9 * s.den2

HasEmbedding(n) == "embedding" \in DOMAIN n /\ n.embedding # None

Eligible == { i \in 1..Len(nx_nodes) : HasEmbedding(nx_nodes[i]) /\ Above30(Sim(nx_nodes[i])) }

\* C11: a search in embedding mode whose limit truncates nothing returns
\* exactly the nodes that have a non-null embedding and a similarity to the
\* query strictly above 0.30 (a node at exactly 0.30 is left out), each once
\* and with its similarity as its score.
C11_EmbeddingResultSet ==
    (IsSearch /\ last.note = "embedding" /\ last.arg.limit >= Cardinality(Eligible)) =>
        /\ Len(last.ret) = Cardinality(Eligible)
        /\ { last.ret[k].node_id : k \in 1..Len(last.ret) }
               = { nx_nodes[i].id : i \in Eligible }
        /\ \A k \in 1..Len(last.ret) :
               /\ last.ret[k].data = nx_nodes[Position(last.ret[k].node_id)]
               /\ ScoreEq(last.ret[k].similarity, Sim(last.ret[k].data))

C11_Witness ==
    /\ IsSearch
    /\ last.note = "embedding"
    /\ Len(last.ret) = 2
    /\ last.arg.limit = 2
    /\ Cardinality(Eligible) = 2
    /\ \E i \in 1..Len(nx_nodes) :
           /\ HasEmbedding(nx_nodes[i])
           /\ Exactly30(Sim(nx_nodes[i]))
           /\ \A k \in 1..Len(last.ret) : last.ret[k].node_id # nx_nodes[i].id
    /\ \E i \in 1..Len(nx_nodes) : ~HasEmbedding(nx_nodes[i])

IsLexical == IsSearch /\ last.note \in {"lexical", "fallback"}

Attr(n, k) == IF k \in DOMAIN n THEN n[k] ELSE <<>>
Has(n, k)  == k \in DOMAIN n

\* points of a node when the lowercased query is looked up in the title and
\* the text as they are stored
RawPoints(n) ==
    (IF Has(n, "title") /\ Contains(Attr(n, "title"), Lower(last.arg.query))
     THEN 2 ELSE 0)
    + (IF Has(n, "text_content")
          /\ Contains(Attr(n, "text_content"), Lower(last.arg.query))
       THEN 1 ELSE 0)

\* points of a node when the lowercased query is looked up in the lowercased
\* title and the lowercased text
LoweredPoints(n) ==
    (IF Has(n, "title") /\ Contains(Lower(Attr(n, "title")), Lower(last.arg.query))
     THEN 2 ELSE 0)
    + (IF Has(n, "text_content")
          /\ Contains(Lower(Attr(n, "text_content")), Lower(last.arg.query))
       THEN 1 ELSE 0)

\* The last search returned exactly the nodes with points, each once, with
\* points / 3 as its score
LexicalBy(points(_)) ==
    LET scored == { i \in 1..Len(nx_nodes) : points(nx_nodes[i]) > 0 } IN
    last.arg.limit >= Cardinality(scored) =>
        /\ Len(last.ret) = Cardinality(scored)
        /\ { last.ret[k].node_id : k \in 1..Len(last.ret) }
               = { nx_nodes[i].id : i \in scored }
        /\ \A k \in 1..Len(last.ret) :
               /\ last.ret[k].data = nx_nodes[Position(last.ret[k].node_id)]
               /\ points(last.ret[k].data) \in {1, 2, 3}
               /\ ScoreEq(last.ret[k].similarity, Score(points(last.ret[k].data), Sq(3)))

\* C12, as claimed: in lexical mode a node has 2 points if the lowercased
\* query is a substring of its title, plus 1 if it is a substring of its text;
\* a search that truncates nothing returns exactly the nodes with points, with
\* score points / 3, so 1/3, 2/3 or 1.
C12_LexicalRaw == IsLexical => LexicalBy(RawPoints)

\* C12, amended: the same, the query being looked up in the lowercased title
\* and the lowercased text, so that the match ignores case on both sides.
C12_LexicalLowered == IsLexical => LexicalBy(LoweredPoints)

C12_Witness ==
    /\ IsLexical
    /\ last.arg.limit = 2
    /\ Len(last.ret) = 2
    /\ LoweredPoints(last.ret[1].data) = 2
    /\ RawPoints(last.ret[1].data) = 0
    /\ LoweredPoints(last.ret[2].data) = 1
    /\ \E i \in 1..Len(nx_nodes) : LoweredPoints(nx_nodes[i]) = 0

---------------------------------------------------------------------------
(* Records with a nested field missing *)

\* The derivation that the missing field feeds made no node
SkippedDerivation ==
    /\ (LastType = "faq" /\ last.arg.faqs = Missing) =>
           CountNodes(NewNodes, "question") + CountNodes(NewNodes, "answer") = 0
    /\ (LastType = "data" /\ last.arg.data_info = Missing) =>
           CountNodes(NewNodes, "specifications") = 0
    /\ (LastType = "data" /\ last.arg.download_links = Missing) =>
           CountNodes(NewNodes, "download_link") = 0
    /\ (LastType = "api" /\ last.arg.api_info = Missing) =>
           CountNodes(NewNodes, "api_documentation")
               + CountNodes(NewNodes, "code_example") = 0
    /\ ((LastType = "faq" /\ last.arg.faqs = Missing)
        \/ (LastType = "data" /\ last.arg.data_info = Missing
                               /\ last.arg.download_links = Missing)
        \/ (LastType = "api" /\ last.arg.api_info = Missing)) =>
           Len(NewNodes) = 1 /\ Len(NewEdges) = 0

FieldMissing ==
    \/ LastType = "faq" /\ last.arg.faqs = Missing
    \/ LastType = "data" /\ (last.arg.data_info = Missing \/ last.arg.download_links = Missing)
    \/ LastType = "api" /\ last.arg.api_info = Missing

\* C16: an add_content of a record whose type-specific nested field is missing
\* (no faqs for 'faq', no data_info or download_links for 'data', no api_info
\* for 'api') skips the derivation the field feeds, adds exactly one content
\* node, returns the key of that node and does not raise.
C16_MissingFieldOneContent ==
    (IsAdd /\ FieldMissing) =>
        /\ SkippedDerivation
        /\ CountNodes(NewNodes, "content") = 1
        /\ ~last.raised
        /\ \E i \in 1..Len(NewNodes) :
               NewNodes[i].type = "content" /\ NewNodes[i].id = last.ret

---------------------------------------------------------------------------
(* The JSON export read back *)

\* What the last export wrote: <<>>, or <<[format, graph_data]>>
LastWritten ==
    IF last.op = "export_graph" THEN last.note[2]
    ELSE IF last.op = "GET /graph/export" THEN last.note
    ELSE <<>>

WroteJson == LastWritten # <<>> /\ LastWritten[1].format = "json"

\* The graph a reader of the JSON builds: one node per node record, under its
\* 'id', then one edge per edge record
Reimported(graph_data) ==
    Apply([nodes |-> <<>>, edges |-> <<>>],
          [i \in 1..Len(graph_data.nodes) |-> NodeOp(graph_data.nodes[i])]
              \o [i \in 1..Len(graph_data.edges) |-> EdgeOp(graph_data.edges[i])])

Occurrences(seq, x) == Cardinality({ i \in 1..Len(seq) : seq[i] = x })

\* C17: the JSON an export writes holds exactly one record per node (its id,
\* its kind and its attributes) and one record per edge (source, target,
\* relation), and the graph read back from it has the node count, the edge
\* count, the node-kind histogram and the edge-relation histogram of the graph
\* exported.
C17_JsonRoundTrip ==
    WroteJson =>
        LET graph_data == LastWritten[1].graph_data
            back       == Reimported(graph_data)
        IN /\ Len(graph_data.nodes) = Len(nx_nodes)
           /\ \A i \in 1..Len(nx_nodes) : Occurrences(graph_data.nodes, nx_nodes[i]) = 1
           /\ \A i \in 1..Len(graph_data.nodes) : "type" \in DOMAIN graph_data.nodes[i]
           /\ Len(graph_data.edges) = Len(nx_edges)
           /\ \A i \in 1..Len(nx_edges) :
                  Occurrences(graph_data.edges, nx_edges[i]) = Occurrences(nx_edges, nx_edges[i])
           /\ Len(back.nodes) = Len(nx_nodes)
           /\ Len(back.edges) = Len(nx_edges)
           /\ Histogram(back.nodes) = Histogram(nx_nodes)
           /\ Histogram(back.edges) = Histogram(nx_edges)

C17_Witness ==
    /\ WroteJson
    /\ Len(nx_nodes) >= 4
    /\ Cardinality(DOMAIN Histogram(nx_nodes)) >= 3
    /\ Cardinality(DOMAIN Histogram(nx_edges)) >= 2
    /\ Len(Reimported(LastWritten[1].graph_data).edges) = Len(nx_edges)

---------------------------------------------------------------------------
(* Related content *)

IsRelated == last.op = "get_related_content"

\* C13: get_related_content on a key the graph does not hold returns the
\* empty list and raises nothing, with and without a relationship type, and
\* the graph is after the call what it was before.
C13_AbsentNodeEmpty ==
    [][ (last'.op = "get_related_content"
         /\ ~HasNode([nodes |-> nx_nodes], last'.arg.node_id)) =>
            /\ last'.ret = <<>>
            /\ ~last'.raised
            /\ UNCHANGED <<nx_nodes, nx_edges, neo_count>> ]_vars

C13_Witness ==
    /\ IsRelated
    /\ ~HasNode([nodes |-> nx_nodes], last.arg.node_id)
    /\ last.arg.relationship_type = <<"contains">>
    /\ CountEdges(nx_edges, "contains") > 0
    /\ last.ret = <<>>

OutEdgesOf(node_id, relation) ==
    { i \in 1..Len(nx_edges) :
        nx_edges[i].source = node_id /\ nx_edges[i].type = relation }

---------------------------------------------------------------------------
(* Readers while add_content runs *)

ReaderOps == {"search_content", "get_related_content", "get_graph_stats", "export_graph"}

\* The graph is part-way through an add_content: it is neither the graph the
\* call found nor the graph the call leaves
PartWay ==
    /\ running # <<>>
    /\ [nodes |-> nx_nodes, edges |-> nx_edges] # running[1].before
    /\ [nodes |-> nx_nodes, edges |-> nx_edges] # running[1].after

\* C15: the nodes and edges of one add_content call appear at once to the
\* readers: no search_content, get_related_content, get_graph_stats or
\* export_graph call runs on a graph that is part-way through an add_content.
C15_AddAtomicToReaders ==
    [][ (last' # last /\ last'.op \in ReaderOps) => ~PartWay ]_vars

C15_Witness ==
    /\ last.op = "search_content"
    /\ last.ret # <<>>
    /\ PartWay
    /\ Len(running[1].ops) >= 2

---------------------------------------------------------------------------
(* The intent of a query *)

IsClassified == last.op = "process_query" /\ IsStr(last.arg)

\* r is the float n / d
Is(r, n, d) == r.num * d = n * r.den

\* The trigger words of the i-th keyword table in the normalized text
Triggers(i) == KeywordScore(i, last.ret.processed_query)

Found(kind) == kind \in DOMAIN last.ret.entities

\* No intent scores above zero
NoIntentScores ==
    /\ \A i \in 1..Len(intent_keywords) : Triggers(i) = 0
    /\ ~Found("location")
    /\ ~Found("api_endpoint")
    /\ ~Found("file_format")

\* C18: a query in which no intent scores above zero (no trigger word in the
\* normalized text, no location, API-endpoint or file-format entity) is a
\* general question with confidence exactly 0.5; the empty query is one, and
\* its entity mapping is empty.
C18_ZeroScoresGeneral ==
    IsClassified =>
        /\ NoIntentScores =>
               /\ last.ret.intent = "general_question"
               /\ Is(last.ret.confidence, 1, 2)
        /\ last.arg = Chars("") =>
               /\ last.ret.intent = "general_question"
               /\ Is(last.ret.confidence, 1, 2)
               /\ DOMAIN last.ret.entities = {}

C18_Witness ==
    /\ IsClassified
    /\ NoIntentScores
    /\ last.arg # Chars("")
    /\ DOMAIN last.ret.entities # {}
    /\ nlp

\* The intents in the order of the claim
IntentOrder ==
    << "information_retrieval", "data_download", "technical_support",
       "geospatial_query", "api_help" >>

\* The score of the claim: the trigger words of the intent, and its bonus
ClaimedScore(i) ==
    Triggers(i)
    + (IF IntentOrder[i] = "geospatial_query" /\ Found("location") THEN 2 ELSE 0)
    + (IF IntentOrder[i] = "api_help" /\ Found("api_endpoint") THEN 2 ELSE 0)
    + (IF IntentOrder[i] = "data_download" /\ Found("file_format") THEN 1 ELSE 0)

IsBest(i) ==
    /\ \A j \in 1..Len(IntentOrder) : ClaimedScore(j) <= ClaimedScore(i)
    /\ \A j \in 1..(i - 1) : ClaimedScore(j) < ClaimedScore(i)

\* C20: when an intent scores above zero, the intent returned is the one of
\* the highest score, the earliest of them in the order information_retrieval,
\* data_download, technical_support, geospatial_query, api_help, and the
\* confidence is min(best score / 51, 1.0).
C20_HighestScoreFirstOnTies ==
    (IsClassified /\ ~NoIntentScores) =>
        \E i \in 1..Len(IntentOrder) :
            /\ IsBest(i)
            /\ last.ret.intent = IntentOrder[i]
            /\ IF ClaimedScore(i) >= 51 THEN Is(last.ret.confidence, 1, 1)
               ELSE Is(last.ret.confidence, ClaimedScore(i), 51)

\* Two intents tie for the best score, one of them by its entity bonus
C20_Witness ==
    /\ IsClassified
    /\ \E i, j \in 1..Len(IntentOrder) :
           /\ i < j
           /\ IsBest(i)
           /\ ClaimedScore(j) = ClaimedScore(i)
           /\ ClaimedScore(j) > Triggers(j)
           /\ last.ret.intent = IntentOrder[i]

---------------------------------------------------------------------------
(* 'API authentication endpoint' *)

AboutAuthentication == IsClassified /\ last.arg = Chars("API authentication endpoint")

\* C19 as stated: the query 'API authentication endpoint' is api_help with a
\* confidence above zero, and an api_endpoint entity is extracted from it, its
\* bonus of 2 part of the api_help score.
C19_EndpointBonusApplied ==
    AboutAuthentication =>
        /\ last.ret.intent = "api_help"
        /\ last.ret.confidence.num > 0
        /\ Found("api_endpoint")
        /\ Is(last.ret.confidence, Triggers(5) + 2, 51)

\* C19: no api_endpoint entity is extracted from 'API authentication
\* endpoint' and no bonus is part of the api_help score, which is 2, for
\* 'api' and 'endpoint'; the confidence is 2/51, and the intent is api_help
\* unless the tagger finds a location, and then it is geospatial_query.
C19_NoEndpointEntity ==
    AboutAuthentication =>
        /\ ~Found("api_endpoint")
        /\ Triggers(5) = 2
        /\ Is(last.ret.confidence, 2, 51)
        /\ last.ret.intent = IF Found("location") THEN "geospatial_query" ELSE "api_help"

C19_Witness ==
    /\ AboutAuthentication
    /\ nlp
    /\ ~last.note.raises
    /\ last.ret.intent = "api_help"
    /\ DOMAIN last.ret.entities # {}

---------------------------------------------------------------------------
(* The entity mapping *)

\* The candidates of a kind in extraction order: those of the patterns, then
\* those of the tagger
Candidates(kind) ==
    LET tagged == IF nlp THEN _extract_with_spacy(last.note) ELSE <<>>
    IN Matches(PatternsOf(kind), last.ret.processed_query)
       \o (IF kind \in DOMAIN tagged THEN tagged[kind] ELSE <<>>)

\* C21: the entity mapping merges the candidates of the patterns and of the
\* tagger: the list of a kind holds every candidate of either source, none
\* twice, in the order of first occurrence, and a kind without a candidate
\* has no list.
C21_EntitiesMerged ==
    IsClassified =>
        \A i \in 1..Len(EntityKinds) :
            IF Candidates(EntityKinds[i]) = <<>>
            THEN ~Found(EntityKinds[i])
            ELSE /\ Found(EntityKinds[i])
                 /\ last.ret.entities[EntityKinds[i]] = Distinct(Candidates(EntityKinds[i]))

---------------------------------------------------------------------------
(* Errors inside process_query *)

\* The call was given something that is no str: its normalization raised
NormalizationRaised == last.op = "process_query" /\ ~IsStr(last.arg)

\* The tagger raised in entity extraction and in keyword extraction
TaggerRaised == IsClassified /\ nlp /\ last.note.raises

IsUnknown ==
    /\ last.ret.intent = "unknown"
    /\ Is(last.ret.confidence, 0, 1)
    /\ DOMAIN last.ret.entities = {}
    /\ last.ret.keywords = <<>>

LongTokens ==
    LET long(word) == Len(word) > 3
    IN SelectSeq(Split(last.ret.processed_query), long)

C23_KeywordsASet ==
    IsClassified =>
        /\ \A i, j \in 1..Len(last.ret.keywords) :
               last.ret.keywords[i] = last.ret.keywords[j] => i = j
        /\ ~nlp => last.ret.keywords = LongTokens

---------------------------------------------------------------------------
(* The range of the confidence *)

\* An entity mapping with a candidate of every kind
EveryKind == [kind \in { EntityKinds[i] : i \in 1..Len(EntityKinds) } |-> << Chars("x") >>]

\* The most an intent can score: each of its keywords, and its bonus
Ceiling(i) ==
    Len(intent_keywords[i].keywords) + EntityBonus(intent_keywords[i].intent, EveryKind)

IsScored == IsClassified /\ last.ret.intent \in { IntentOrder[i] : i \in 1..Len(IntentOrder) }

\* C29: no intent can score above 12, and a query classified to one of the
\* five scored intents has a confidence above 0 and at most 12/51, which is
\* not the clamp 1.0 and is below the 0.5 of general_question.
C29_ScoreAtMost12 ==
    /\ \A i \in 1..Len(intent_keywords) : Ceiling(i) <= 12
    /\ IsScored =>
           /\ \A i \in 1..Len(IntentOrder) : ClaimedScore(i) <= Ceiling(i)
           /\ last.ret.confidence.num > 0
           /\ last.ret.confidence.num * 51 <= 12 * last.ret.confidence.den
           /\ ~Is(last.ret.confidence, 1, 1)
           /\ last.ret.confidence.num * 2 < last.ret.confidence.den

C29_Witness ==
    /\ IsScored
    /\ last.ret.intent = "api_help"
    /\ Found("api_endpoint")
    /\ Is(last.ret.confidence, 4, 51)

---------------------------------------------------------------------------
(* C24: one handler and one search a question *)

IsAsked == last.op = "AIHelpBot.process_query"

\* The search the intent of the answer calls for
IntentSearch(intent, query) ==
    CASE intent = "geospatial_query"  -> [query |-> query, limit |-> 5]
      [] intent = "data_download"     -> [query |-> query, limit |-> 10]
      [] intent = "api_help"          -> [query |-> <<"A", "P", "I", " ">> \o query, limit |-> 8]
      [] intent = "technical_support" ->
             [query |-> <<"h", "e", "l", "p", " ", "s", "u", "p", "p", "o", "r", "t", " ">> \o query,
              limit |-> 6]
      [] intent \in {"information_retrieval", "general_question", "unknown"} ->
             [query |-> query, limit |-> 8]

IntentResponseType ==
    [ geospatial_query |-> "spatial", data_download |-> "data_download",
      api_help |-> "api_help", technical_support |-> "technical_support",
      information_retrieval |-> "general", general_question |-> "general",
      unknown |-> "general" ]

\* The intents process_query can give the question of the last call
AskedIntents == { a.ret.intent : a \in Analyses(last.arg) }

\* The results carry the attribute maps the graph holds for their nodes
FullAttributeMaps(results) ==
    \A i \in 1..Len(results) :
        \E k \in 1..Len(nx_nodes) :
            /\ nx_nodes[k].id = results[i].node_id
            /\ results[i].data = nx_nodes[k]

\* C24: a question runs one handler, the one of its intent, and the handler
\* makes one search_content call: the raw query with limit 5 for a
\* geospatial query and limit 10 for a data download, "API " and the query
\* with limit 8 for API help, "help support " and the query with limit 6 for
\* technical support, the raw query with limit 8 otherwise; an answer that
\* succeeded carries the results of that search with the attribute maps of
\* their nodes
C24_OneHandlerOneSearch ==
    IsAsked =>
        /\ Len(last.note.handlers) = 1
        /\ Len(last.note.searches) = 1
        /\ \E intent \in AskedIntents :
               /\ last.ret.response_type = IntentResponseType[intent]
               /\ last.note.searches[1] = IntentSearch(intent, last.arg)
               /\ last.ret.success =>
                      /\ last.ret.query_analysis.intent = intent
                      /\ \E raises \in BOOLEAN :
                             last.ret.knowledge_graph_results =
                                 SearchResults(IntentSearch(intent, last.arg).query,
                                               IntentSearch(intent, last.arg).limit, raises)
                      /\ FullAttributeMaps(last.ret.knowledge_graph_results)

AnsweredBy(type, limit) ==
    /\ IsAsked
    /\ last.ret.response_type = type
    /\ last.note.searches[1].limit = limit

\* A question about an API call answered from the graph with the page about
\* it
C24_Witness ==
    /\ AnsweredBy("api_help", 8)
    /\ last.ret.success
    /\ Len(last.ret.knowledge_graph_results) = 1
    /\ last.ret.knowledge_graph_results[1].data.title = botDoc.title

---------------------------------------------------------------------------
(* C25: the last records of the conversation *)

IsHistory == last.op = "get_conversation_history"

\* C25: get_conversation_history(limit) gives for every limit >= 0 at most
\* limit records, the most recent ones in the order they were asked
C25_AtMostLimitRecords ==
    (IsHistory /\ last.arg >= 0) =>
        /\ Len(last.ret) <= last.arg
        /\ \A i \in 1..Len(last.ret) :
               last.ret[i] =
                   conversation_history[Len(conversation_history) - Len(last.ret) + i]

---------------------------------------------------------------------------
(* C26: the id add_content returns *)

\* The content node the last call added
NewContent == NewNodes[CHOOSE i \in 1..Len(NewNodes) : NewNodes[i].type = "content"]

\* C26: on every path of add_content (no Neo4j connection, the commit
\* succeeding, the Neo4j part raising) the local graph gains exactly one
\* content node and the id returned is the key of that node, so that
\* get_related_content(returned id) reaches the nodes the call linked to it
C26_ReturnedIdIsKey ==
    IsAdd =>
        /\ CountNodes(NewNodes, "content") = 1
        /\ last.ret = NewContent.id
        /\ \A i \in 1..Len(NewEdges) :
               NewEdges[i].source = NewContent.id =>
                   \E k \in 1..Len(RelatedOutcome(last.ret, Missing).ret) :
                       RelatedOutcome(last.ret, Missing).ret[k].node_id = NewEdges[i].target

---------------------------------------------------------------------------
(* C27: the node kinds a search returns *)

ResultKinds == { last.ret[k].data.type : k \in 1..Len(last.ret) }

GraphKinds == { nx_nodes[i].type : i \in 1..Len(nx_nodes) }

\* C27: on every graph add_content builds, a search over the embeddings
\* returns question and answer nodes only and a lexical search returns
\* content nodes only; download_link, specifications, api_documentation and
\* code_example nodes are never returned
C27_ResultKinds ==
    IsSearch =>
        /\ last.note = "embedding" => ResultKinds \subseteq {"question", "answer"}
        /\ last.note \in {"lexical", "fallback"} => ResultKinds \subseteq {"content"}

\* A lexical search for 'data' over a page with a download link whose text is
\* 'data' returns the page alone
C27_Witness ==
    /\ IsSearch
    /\ last.note = "lexical"
    /\ last.arg.query = sData
    /\ ResultKinds = {"content"}
    /\ {"download_link", "specifications"} \subseteq GraphKinds
    /\ \E i \in 1..Len(nx_nodes) :
           nx_nodes[i].type = "download_link" /\ nx_nodes[i].text = sData

---------------------------------------------------------------------------
(* C28: the readers leave the graph alone *)

Readers == {"search_content", "get_related_content", "get_graph_stats", "export_graph"}

SameSearch ==
    /\ IsSearch
    /\ last'.op = "search_content"
    /\ last'.arg = last.arg
    /\ last'.note = last.note

\* C28: search_content, get_related_content, get_graph_stats and export_graph
\* leave the nodes, the edges and the attributes of the graph as they were,
\* and a search repeated with the same query and limit on the same graph and
\* the same provider availability returns the same results in the same order
C28_ReadersKeepGraph ==
    [][ /\ last'.op \in Readers => (nx_nodes' = nx_nodes /\ nx_edges' = nx_edges)
        /\ SameSearch => last'.ret = last.ret ]_vars

\* A search that returned a node of a graph with edges
C28_Witness ==
    /\ IsSearch
    /\ Len(last.ret) > 0
    /\ Len(nx_edges) > 0

---------------------------------------------------------------------------
(* C30: the crawl *)

Crawling == crawl.pc = "while"

Returned == crawl.pc = "returned"

\* Each page was fetched once at most, none at a depth above max_depth, and
\* each page but the first was linked from a page fetched one level above it
FetchedInBounds ==
    /\ \A i, j \in 1..Len(crawl.fetched) :
           crawl.fetched[i].url = crawl.fetched[j].url => i = j
    /\ \A i \in 1..Len(crawl.fetched) :
           /\ crawl.fetched[i].depth <= crawl.max_depth
           /\ i > 1 =>
                  \E j \in 1..(i - 1) :
                      /\ crawl.fetched[j].depth + 1 = crawl.fetched[i].depth
                      /\ crawl.fetched[i].url \in crawl.web[crawl.fetched[j].url]

\* The list discover_content returned is without the start URL
StartNotReturned ==
    /\ last.op = "discover_content"
    /\ \A k \in 1..Len(last.ret) : last.ret[k] # crawl.start_url

\* C30: discover_content terminates on every link graph and every
\* max_depth >= 0; during the crawl each URL is fetched at most once, none at
\* a depth above max_depth, and the start URL is not in the returned list
C30_CrawlTerminatesInBounds ==
    /\ [](Crawling => FetchedInBounds)
    /\ [](Returned => (FetchedInBounds /\ StartNotReturned))
    /\ (Crawling ~> Returned)

\* A crawl of depth 1 over pages that link to each other and back to the
\* start: two pages fetched, the third found and left alone
C30_Witness ==
    /\ Returned
    /\ crawl.max_depth = 1
    /\ crawl.start_url \in crawl.web["/a"]
    /\ "/a" \in crawl.web[crawl.start_url]
    /\ "/b" \in crawl.web["/a"]
    /\ Len(crawl.fetched) = 2
    /\ { last.ret[k] : k \in 1..Len(last.ret) } = {"/a", "/b"}

=============================================================================
